---------------------------- MODULE Spec2Model ----------------------------
(***************************************************************************)
(* Notification scheduling of AlmanaqueLuso: the cron callbacks            *)
(* sendDailyDigest and sendImmediateNotifications                          *)
(* (server/jobs/notificationScheduler.ts), the push channel                *)
(* PushNotificationService.sendToUser, and the tables they read and write. *)
(***************************************************************************)
EXTENDS Integers, Sequences, FiniteSets, TLC

VARIABLES
  now,     \* wall clock, minutes since local midnight (getHours()*60+getMinutes())
  day,     \* calendar day of the wall clock
  prefs,   \* table notification_preferences, rows in storage order
  subs,    \* table push_subscriptions, a set of rows
  events,  \* table events, a set of rows
  nextId,  \* serial of push_subscriptions.id
  job,     \* run state of the two cron callbacks
  log,     \* every webpush.sendNotification attempt made so far
  probe,   \* last result of a directly applied time-window function
  ticks,   \* how many times the wall clock has advanced
  faults,  \* how many steps so far met a failing database call or push reply
  env,     \* what the surroundings may do: clock step, run length, faults
  http     \* how far the handler of each HTTP request has got

vars ==
  << now, day, prefs, subs, events, nextId, job, log, probe, ticks, faults, env,
     http >>

---------------------------------------------------------------------------
(* JavaScript numbers as far as the time arithmetic needs them: an integer *)
(* or NaN.  Every comparison with NaN is false.                            *)

NaN == [nan |-> TRUE, v |-> 0]

JsNum(n) == [nan |-> FALSE, v |-> n]

JsAdd(a, b) == IF a.nan \/ b.nan THEN NaN ELSE JsNum(a.v + b.v)

JsMul(a, b) == IF a.nan \/ b.nan THEN NaN ELSE JsNum(a.v * b.v)

JsLt(a, b) == ~a.nan /\ ~b.nan /\ a.v < b.v

JsGt(a, b) == ~a.nan /\ ~b.nan /\ a.v > b.v

JsLe(a, b) == ~a.nan /\ ~b.nan /\ a.v <= b.v

JsGe(a, b) == ~a.nan /\ ~b.nan /\ a.v >= b.v

---------------------------------------------------------------------------
(* Strings are sequences of one-character strings.  The empty sequence     *)
(* stands for both null and '' (both falsy under ||).                      *)

Digits == <<"0", "1", "2", "3", "4", "5", "6", "7", "8", "9">>

DigitChars == {Digits[i] : i \in 1..10}

DigitVal(c) == (CHOOSE i \in 1..10 : Digits[i] = c) - 1

MinutesPerHour == 60

HoursPerDay == 24

MinutesPerDay == HoursPerDay * MinutesPerHour

\* The HH:MM text a time of day is stored as (zero padded, as the column defaults).
HHMM(h, m) ==
  << Digits[(h \div 10) + 1], Digits[(h % 10) + 1], ":",
     Digits[(m \div 10) + 1], Digits[(m % 10) + 1] >>

\* String.prototype.split(':')
RECURSIVE Split(_)
Split(s) ==
  IF \A i \in 1..Len(s) : s[i] # ":"
  THEN << s >>
  ELSE LET k == CHOOSE i \in 1..Len(s) :
                  s[i] = ":" /\ \A j \in 1..(i - 1) : s[j] # ":"
       IN  << SubSeq(s, 1, k - 1) >> \o Split(SubSeq(s, k + 1, Len(s)))

RECURSIVE DecVal(_)
DecVal(s) ==
  IF s = << >> THEN 0
  ELSE 10 * DecVal(SubSeq(s, 1, Len(s) - 1)) + DigitVal(s[Len(s)])

\* Number(str) over the characters the model uses: '' is 0, a run of digits is
\* its decimal value, anything else is NaN.
Number(s) ==
  IF s = << >> THEN JsNum(0)
  ELSE IF \A i \in 1..Len(s) : s[i] \in DigitChars THEN JsNum(DecVal(s))
  ELSE NaN

\* const [h, m] = str.split(':').map(Number);  h * 60 + m
\* A missing second element is undefined, and undefined in arithmetic is NaN.
TotalMinutes(s) ==
  LET parts == Split(s)
      h == Number(parts[1])
      m == IF Len(parts) >= 2 THEN Number(parts[2]) ELSE NaN
  IN  JsAdd(JsMul(h, JsNum(MinutesPerHour)), m)

\* value || fallback
OrDefault(s, fallback) == IF s = << >> THEN fallback ELSE s

DefaultQuietStart == HHMM(22, 0)

DefaultQuietEnd == HHMM(8, 0)

DefaultPreferredTime == HHMM(9, 0)

---------------------------------------------------------------------------
(* The time-window evaluator.                                              *)

isQuietHoursStrictEnd(quietStart, quietEnd) ==
  LET currentTime == JsNum(now)
      startTime == TotalMinutes(quietStart)
      endTime == TotalMinutes(quietEnd)
  IN  IF JsGt(startTime, endTime)
      THEN JsGe(currentTime, startTime) \/ JsLt(currentTime, endTime)
      ELSE JsGe(currentTime, startTime) /\ JsLt(currentTime, endTime)

isQuietHours(quietStart, quietEnd) ==
  LET currentTime == JsNum(now)
      startTime == TotalMinutes(quietStart)
      endTime == TotalMinutes(quietEnd)
  IN  IF JsGt(startTime, endTime)
      THEN JsGe(currentTime, startTime) \/ JsLe(currentTime, endTime)
      ELSE JsGe(currentTime, startTime) /\ JsLe(currentTime, endTime)

\* The UTF-16 code unit of a character of a time text.
CharCode(c) ==
  IF c \in DigitChars THEN 48 + DigitVal(c)
  ELSE IF c = ":" THEN 58
  ELSE 104

\* a < b on strings: comparison by code units, a proper prefix being smaller.
RECURSIVE StrLt(_, _)
StrLt(a, b) ==
  IF b = << >> THEN FALSE
  ELSE IF a = << >> THEN TRUE
  ELSE IF Head(a) = Head(b) THEN StrLt(Tail(a), Tail(b))
  ELSE CharCode(Head(a)) < CharCode(Head(b))

StrGt(a, b) == StrLt(b, a)

StrGe(a, b) == ~StrLt(a, b)

\* PushNotificationService.isQuietHours(prefs): the comparison of HH:MM texts.
PushNotificationService_isQuietHours(pref) ==
  LET currentTime == HHMM(now \div MinutesPerHour, now % MinutesPerHour)
      quietStart == OrDefault(pref.quietHoursStart, DefaultQuietStart)
      quietEnd == OrDefault(pref.quietHoursEnd, DefaultQuietEnd)
  IN  IF StrGt(quietStart, quietEnd)
      THEN StrGe(currentTime, quietStart) \/ StrLt(currentTime, quietEnd)
      ELSE StrGe(currentTime, quietStart) /\ StrLt(currentTime, quietEnd)

SendWindow == 15

\* The negation of the `continue` condition of sendDailyDigest's time check.
inSendWindowInclusiveEnd(preferredNotificationTime) ==
  LET currentTotalMinutes == JsNum(now)
      preferredTotalMinutes ==
        TotalMinutes(OrDefault(preferredNotificationTime, DefaultPreferredTime))
  IN  ~( JsLt(currentTotalMinutes, preferredTotalMinutes)
         \/ JsGt(currentTotalMinutes,
                 JsAdd(preferredTotalMinutes, JsNum(SendWindow))) )

inSendWindow(preferredNotificationTime) ==
  LET currentTotalMinutes == JsNum(now)
      preferredTotalMinutes ==
        TotalMinutes(OrDefault(preferredNotificationTime, DefaultPreferredTime))
  IN  ~( JsLt(currentTotalMinutes, preferredTotalMinutes)
         \/ JsGe(currentTotalMinutes,
                 JsAdd(preferredTotalMinutes, JsNum(SendWindow))) )

---------------------------------------------------------------------------
(* Tables and rows.                                                        *)

\* The column defaults of notification_preferences.
DefaultCategories ==
  [ tidesEnabled |-> TRUE,        tidesFrequency |-> "immediate",
    sportsEnabled |-> TRUE,       sportsFrequency |-> "daily",
    astronomyEnabled |-> TRUE,    astronomyFrequency |-> "daily",
    agricultureEnabled |-> FALSE, agricultureFrequency |-> "weekly",
    culturalEnabled |-> TRUE,     culturalFrequency |-> "weekly",
    holidaysEnabled |-> TRUE,     holidaysFrequency |-> "daily" ]

\* A row of notification_preferences.
PrefRow(userId, categories, preferredTime, quietStart, quietEnd) ==
  categories @@
  [ userId |-> userId,
    preferredNotificationTime |-> preferredTime,
    quietHoursStart |-> quietStart,
    quietHoursEnd |-> quietEnd ]

\* A row of push_subscriptions.
SubRow(id, userId, endpoint, keys) ==
  [ id |-> id, userId |-> userId, endpoint |-> endpoint, keys |-> keys ]

\* A row of events; startAt in minutes since midnight of day 0.
EventRow(id, type, startAt, title, location) ==
  [ id |-> id, type |-> type, startAt |-> startAt, title |-> title,
    location |-> location ]

\* new Date() as an instant, in minutes since midnight of day 0.
Instant == day * MinutesPerDay + now

---------------------------------------------------------------------------
(* getRelevantEvents and the two event queries.                            *)

\* const eventTypes: string[] = []; ... eventTypes.push(...)
eventTypesIgnoringEnabled(preferences) ==
  (IF preferences.tidesFrequency # "never" THEN << "tide" >> ELSE << >>)
  \o (IF preferences.sportsFrequency # "never"
     THEN << "match_liga", "uefa", "fifa" >> ELSE << >>)
  \o (IF preferences.astronomyFrequency # "never"
     THEN << "astronomy", "moon" >> ELSE << >>)
  \o (IF preferences.agricultureFrequency # "never"
     THEN << "agriculture" >> ELSE << >>)
  \o (IF preferences.culturalFrequency # "never"
     THEN << "event_pt", "cultural" >> ELSE << >>)
  \o (IF preferences.holidaysFrequency # "never" THEN << "holiday" >> ELSE << >>)

eventTypesIgnoringNever(preferences) ==
  (IF preferences.tidesEnabled THEN << "tide" >> ELSE << >>)
  \o (IF preferences.sportsEnabled
     THEN << "match_liga", "uefa", "fifa" >> ELSE << >>)
  \o (IF preferences.astronomyEnabled THEN << "astronomy", "moon" >> ELSE << >>)
  \o (IF preferences.agricultureEnabled THEN << "agriculture" >> ELSE << >>)
  \o (IF preferences.culturalEnabled THEN << "event_pt", "cultural" >> ELSE << >>)
  \o (IF preferences.holidaysEnabled THEN << "holiday" >> ELSE << >>)

eventTypes(preferences) ==
  (IF preferences.tidesEnabled /\ preferences.tidesFrequency # "never"
     THEN << "tide" >> ELSE << >>)
  \o (IF preferences.sportsEnabled /\ preferences.sportsFrequency # "never"
     THEN << "match_liga", "uefa", "fifa" >> ELSE << >>)
  \o (IF preferences.astronomyEnabled /\ preferences.astronomyFrequency # "never"
     THEN << "astronomy", "moon" >> ELSE << >>)
  \o (IF preferences.agricultureEnabled /\ preferences.agricultureFrequency # "never"
     THEN << "agriculture" >> ELSE << >>)
  \o (IF preferences.culturalEnabled /\ preferences.culturalFrequency # "never"
     THEN << "event_pt", "cultural" >> ELSE << >>)
  \o (IF preferences.holidaysEnabled /\ preferences.holidaysFrequency # "never"
     THEN << "holiday" >> ELSE << >>)

Range(s) == {s[i] : i \in 1..Len(s)}

Min(a, b) == IF a <= b THEN a ELSE b

\* Every order in which a SELECT without ORDER BY may return the rows of S.
RECURSIVE Orderings(_)
Orderings(S) ==
  IF S = {} THEN {<< >>}
  ELSE UNION {{<< x >> \o t : t \in Orderings(S \ {x})} : x \in S}

\* select().from(events).where(type = ANY(types) and startAt >= from and
\* startAt <= to).limit(limit): the possible result arrays.
QueryEvents(types, from, to, limit) ==
  LET matching == {e \in events :
                     e.type \in types /\ e.startAt >= from /\ e.startAt <= to}
      n == Min(limit, Cardinality(matching))
  IN  UNION {Orderings(T) : T \in {U \in SUBSET matching : Cardinality(U) = n}}

DigestLimit == 10

TideLimit == 5

DigestHorizon == MinutesPerDay

TideHorizon == MinutesPerHour

\* relevantEvents.slice(0, 3).map(e => e.title)
BodyTitles == 3

DigestPayload(relevantEvents) ==
  [ title |-> [text |-> "eventos hoje", count |-> Len(relevantEvents)],
    body  |-> [k \in 1..Min(BodyTitles, Len(relevantEvents)) |->
                 relevantEvents[k].title],
    url   |-> "/dashboard",
    tag   |-> [kind |-> "daily-digest", id |-> 0] ]

TidePayload(tide) ==
  [ title |-> [text |-> "Mare Proxima", count |-> 0],
    body  |-> << tide.title, tide.location >>,
    url   |-> "/dashboard",
    tag   |-> [kind |-> "tide", id |-> tide.id] ]

NoPayload ==
  [ title |-> [text |-> "", count |-> 0], body |-> << >>, url |-> "",
    tag |-> [kind |-> "", id |-> 0] ]

---------------------------------------------------------------------------
(* The scheduler callbacks as processes.  A callback runs from one await   *)
(* to the next in one step.                                                *)

\* What webpush.sendNotification reports: 201 resolves, anything else rejects
\* with error.statusCode.
StatusCreated == 201

StatusNotFound == 404

StatusGone == 410

StatusServerError == 500

JobIds == {"digest", "immediate", "startup"}

CronJobs == {"digest", "immediate"}

\* Which function a callback runs: the setTimeout of initNotificationScheduler
\* runs sendImmediateNotifications too.
JobKind(j) == IF j = "digest" THEN "digest" ELSE "immediate"

\* cron.schedule('*/15 * * * *', ...)
TickInterval == 15

IdleJob ==
  [ pc |-> "idle",        \* idle | users | loop | send | deliver
    run |-> 0,            \* how many times the callback was started
    firedAt |-> << -1, -1 >>,  \* day and minute the latest run started at
    ended |-> "none",     \* none | running | completed | caught
    rows |-> << >>,       \* prefs still to visit in getUsersForNotifications
    contexts |-> << >>,
    i |-> 0,              \* index of the context the for loop is at
    tides |-> << >>,      \* upcomingTides still to send
    eventTypes |-> << >>, \* getRelevantEvents' local array at its latest call
    relevantEvents |-> << >>,  \* what getRelevantEvents returned for the context
    payload |-> NoPayload,
    userId |-> 0,         \* sendToUser's argument
    targets |-> {},       \* sendToUser's subscriptions still unanswered
    quietSeen |-> {},     \* users whose isQuietHours check was true this run
    handled |-> {},       \* users whose loop body was entered this run
    subFail |-> 0,        \* user whose subscription select threw this run
    queryFail |-> 0,      \* user whose event select threw this run
    threw |-> {},         \* users for whom sendToUser threw to its caller this run
    queried |-> {},       \* users for whom the events select was issued this run
    called |-> {} ]       \* users for whom sendToUser was called this run

\* Whether a database call may throw.
DbFaults == IF faults < env.maxFaults THEN {FALSE, TRUE} ELSE {FALSE}

\* The replies the push service may give to one sendNotification call.
Replies == IF faults < env.maxFaults THEN env.codes ELSE {StatusCreated}

Spent(fail) == IF fail THEN faults + 1 ELSE faults

\* The outer catch of a callback: the run is over.
Caught(jr) == [jr EXCEPT !.pc = "idle", !.ended = "caught"]

\* The for loop over contexts moves to index i: past the end the callback returns.
LoopAt(jr, i) ==
  IF i > Len(jr.contexts)
  THEN [jr EXCEPT !.pc = "idle", !.ended = "completed", !.i = i]
  ELSE [jr EXCEPT !.pc = "loop", !.i = i]

\* getUsersForNotifications after a row: past the last row it returns contexts.
AfterRow(jr) == IF jr.rows = << >> THEN LoopAt(jr, 1) ELSE jr

\* A callback starts: it runs up to and through `select().from(notificationPreferences)`.
StartRunDefaultsForMissing(j) ==
  \E fail \in DbFaults :
    LET fresh == [IdleJob EXCEPT !.run = job[j].run + 1,
                                 !.firedAt = << day, now >>, !.ended = "running"]
        missing == {s.userId : s \in subs}
                     \ {prefs[k].userId : k \in 1..Len(prefs)}
        order == CHOOSE f \in [1..Cardinality(missing) -> missing] :
                   \A a, b \in 1..Cardinality(missing) : a # b => f[a] # f[b]
        rows == prefs \o [k \in 1..Cardinality(missing) |->
                            PrefRow(order[k], DefaultCategories,
                                    DefaultPreferredTime, DefaultQuietStart,
                                    DefaultQuietEnd)]
    IN  /\ job' = [job EXCEPT ![j] =
                     IF fail THEN Caught(fresh)
                     ELSE AfterRow([fresh EXCEPT !.pc = "users", !.rows = rows])]
        /\ faults' = Spent(fail)

StartRun(j) ==
  \E fail \in DbFaults :
    LET fresh == [IdleJob EXCEPT !.run = job[j].run + 1,
                                 !.firedAt = << day, now >>, !.ended = "running"]
    IN  /\ job' = [job EXCEPT ![j] =
                     IF fail THEN Caught(fresh)
                     ELSE AfterRow([fresh EXCEPT !.pc = "users", !.rows = prefs])]
        /\ faults' = Spent(fail)

\* node-cron fires a callback at second 0 of minutes 0, 15, 30, 45.
CronFire(j) ==
  /\ j \in CronJobs
  /\ j \in env.jobs
  /\ now % TickInterval = 0
  /\ job[j].pc = "idle"
  /\ job[j].firedAt # << day, now >>
  /\ StartRun(j)
  /\ UNCHANGED << now, day, prefs, subs, events, nextId, log, probe, ticks, env, http >>

\* setTimeout(() => { sendImmediateNotifications(); }, 60000): one run, a
\* minute after initNotificationScheduler was called at instant env.boot.
StartupDelay == 1

StartupFire ==
  /\ job["startup"].run = 0
  /\ Instant = env.boot + StartupDelay
  /\ StartRun("startup")
  /\ UNCHANGED << now, day, prefs, subs, events, nextId, log, probe, ticks, env, http >>

\* One iteration of `for (const pref of prefs)` in getUsersForNotifications.
GetUsersRowQuietIgnored(jr, pref, fail) ==
  LET quiet == isQuietHours(OrDefault(pref.quietHoursStart, DefaultQuietStart),
                            OrDefault(pref.quietHoursEnd, DefaultQuietEnd))
      seen == IF quiet THEN jr.quietSeen \cup {pref.userId} ELSE jr.quietSeen
      rest == [jr EXCEPT !.rows = Tail(jr.rows), !.quietSeen = seen]
      found == {s \in subs : s.userId = pref.userId}
  IN  IF fail
      THEN Caught([jr EXCEPT !.subFail = pref.userId])
      ELSE IF found # {}
      THEN AfterRow([rest EXCEPT !.contexts = Append(jr.contexts,
             [userId |-> pref.userId, preferences |-> pref,
              subscriptions |-> found])])
      ELSE AfterRow(rest)

GetUsersRow(jr, pref, fail) ==
  LET rest == [jr EXCEPT !.rows = Tail(jr.rows)]
      found == {s \in subs : s.userId = pref.userId}
  IN  IF isQuietHours(OrDefault(pref.quietHoursStart, DefaultQuietStart),
                      OrDefault(pref.quietHoursEnd, DefaultQuietEnd))
      THEN AfterRow([rest EXCEPT !.quietSeen = jr.quietSeen \cup {pref.userId}])
      ELSE IF fail
      THEN Caught([jr EXCEPT !.subFail = pref.userId])
      ELSE IF found # {}
      THEN AfterRow([rest EXCEPT !.contexts = Append(jr.contexts,
             [userId |-> pref.userId, preferences |-> pref,
              subscriptions |-> found])])
      ELSE AfterRow(rest)

GetUsersStep(j) ==
  /\ job[j].pc = "users"
  /\ \E fail \in DbFaults :
       /\ job' = [job EXCEPT ![j] = GetUsersRow(job[j], Head(job[j].rows), fail)]
       /\ faults' = Spent(fail)
  /\ UNCHANGED << now, day, prefs, subs, events, nextId, log, probe, ticks, env, http >>

\* sendToUser has returned to (or thrown into the inner catch of) its caller:
\* the digest moves to the next context, the immediate check to the next tide.
AfterSend(jr) ==
  LET back == [jr EXCEPT !.targets = {}, !.payload = NoPayload, !.userId = 0,
                         !.relevantEvents = << >>]
  IN  IF jr.tides # << >> /\ Tail(jr.tides) # << >>
      THEN [back EXCEPT !.pc = "send", !.tides = Tail(jr.tides),
                        !.userId = jr.userId,
                        !.payload = TidePayload(Head(Tail(jr.tides)))]
      ELSE LoopAt([back EXCEPT !.tides = << >>], jr.i + 1)

\* The body of sendDailyDigest's for loop for one context, up to the call of
\* sendToUser.  `result` is what the event select returns, `fail` whether it throws.
DigestBodyNoWindow(jr, context, fail, result) ==
  LET seen == [jr EXCEPT !.handled = jr.handled \cup {context.userId}]
      typed == [seen EXCEPT !.eventTypes = eventTypes(context.preferences)]
      asked == [typed EXCEPT !.queried = jr.queried \cup {context.userId}]
  IN  IF typed.eventTypes = << >>
      THEN LoopAt(typed, jr.i + 1)
      ELSE IF fail
      THEN Caught([asked EXCEPT !.queryFail = context.userId])
      ELSE IF Len(result) > 0
      THEN [asked EXCEPT !.pc = "send", !.userId = context.userId,
                         !.relevantEvents = result,
                         !.payload = DigestPayload(result),
                         !.called = jr.called \cup {context.userId}]
      ELSE LoopAt(asked, jr.i + 1)

DigestBody(jr, context, fail, result) ==
  LET seen == [jr EXCEPT !.handled = jr.handled \cup {context.userId}]
      typed == [seen EXCEPT !.eventTypes = eventTypes(context.preferences)]
      asked == [typed EXCEPT !.queried = jr.queried \cup {context.userId}]
  IN  IF ~inSendWindow(context.preferences.preferredNotificationTime)
      THEN LoopAt(seen, jr.i + 1)
      ELSE IF typed.eventTypes = << >>
      THEN LoopAt(typed, jr.i + 1)
      ELSE IF fail
      THEN Caught([asked EXCEPT !.queryFail = context.userId])
      ELSE IF Len(result) > 0
      THEN [asked EXCEPT !.pc = "send", !.userId = context.userId,
                         !.relevantEvents = result,
                         !.payload = DigestPayload(result),
                         !.called = jr.called \cup {context.userId}]
      ELSE LoopAt(asked, jr.i + 1)

DigestUserStep(j) ==
  /\ JobKind(j) = "digest"
  /\ job[j].pc = "loop"
  /\ LET context == job[j].contexts[job[j].i]
     IN  \E fail \in DbFaults :
         \E result \in QueryEvents(Range(eventTypes(context.preferences)),
                                   Instant, Instant + DigestHorizon, DigestLimit) :
           /\ job' = [job EXCEPT ![j] = DigestBody(job[j], context, fail, result)]
           /\ faults' = Spent(fail)
  /\ UNCHANGED << now, day, prefs, subs, events, nextId, log, probe, ticks, env, http >>

\* The body of sendImmediateNotifications' for loop for one context, up to the
\* first call of sendToUser.
ImmediateBodyInWindow(jr, context, fail, upcomingTides) ==
  LET seen == [jr EXCEPT !.handled = jr.handled \cup {context.userId}]
      asked == [seen EXCEPT !.queried = jr.queried \cup {context.userId}]
  IN  IF ~inSendWindow(context.preferences.preferredNotificationTime)
         \/ ~context.preferences.tidesEnabled
         \/ context.preferences.tidesFrequency # "immediate"
      THEN LoopAt(seen, jr.i + 1)
      ELSE IF fail
      THEN Caught([asked EXCEPT !.queryFail = context.userId])
      ELSE IF Len(upcomingTides) > 0
      THEN [asked EXCEPT !.pc = "send", !.userId = context.userId,
                         !.tides = upcomingTides,
                         !.payload = TidePayload(Head(upcomingTides)),
                         !.called = jr.called \cup {context.userId}]
      ELSE LoopAt(asked, jr.i + 1)

ImmediateBody(jr, context, fail, upcomingTides) ==
  LET seen == [jr EXCEPT !.handled = jr.handled \cup {context.userId}]
      asked == [seen EXCEPT !.queried = jr.queried \cup {context.userId}]
  IN  IF ~context.preferences.tidesEnabled
         \/ context.preferences.tidesFrequency # "immediate"
      THEN LoopAt(seen, jr.i + 1)
      ELSE IF fail
      THEN Caught([asked EXCEPT !.queryFail = context.userId])
      ELSE IF Len(upcomingTides) > 0
      THEN [asked EXCEPT !.pc = "send", !.userId = context.userId,
                         !.tides = upcomingTides,
                         !.payload = TidePayload(Head(upcomingTides)),
                         !.called = jr.called \cup {context.userId}]
      ELSE LoopAt(asked, jr.i + 1)

ImmediateUserStep(j) ==
  /\ JobKind(j) = "immediate"
  /\ job[j].pc = "loop"
  /\ LET context == job[j].contexts[job[j].i]
     IN  \E fail \in DbFaults :
         \E upcomingTides \in QueryEvents({"tide"}, Instant,
                                          Instant + TideHorizon, TideLimit) :
           /\ job' = [job EXCEPT ![j] =
                        ImmediateBody(job[j], context, fail, upcomingTides)]
           /\ faults' = Spent(fail)
  /\ UNCHANGED << now, day, prefs, subs, events, nextId, log, probe, ticks, env, http >>

---------------------------------------------------------------------------
(* PushNotificationService.sendToUser.                                     *)

\* The select of the user's subscriptions; with none, or when it throws (the
\* outer catch rethrows and the caller's inner catch logs it), the call is over.
SendFetched(jr, fail) ==
  LET subscriptions == {s \in subs : s.userId = jr.userId}
  IN  IF fail
      THEN AfterSend([jr EXCEPT !.threw = jr.threw \cup {jr.userId}])
      ELSE IF subscriptions = {}
      THEN AfterSend(jr)
      ELSE [jr EXCEPT !.pc = "deliver", !.targets = subscriptions]

SendFetch(j) ==
  /\ job[j].pc = "send"
  /\ \E fail \in DbFaults :
       /\ job' = [job EXCEPT ![j] = SendFetched(job[j], fail)]
       /\ faults' = Spent(fail)
  /\ UNCHANGED << now, day, prefs, subs, events, nextId, log, probe, ticks, env, http >>

\* error.statusCode === 410 || error.statusCode === 404
IsExpiredOnlyGone(statusCode) == statusCode = StatusGone

IsExpiredAnyError(statusCode) == statusCode # StatusCreated

IsExpired(statusCode) == statusCode = StatusGone \/ statusCode = StatusNotFound

\* db.delete(pushSubscriptions).where(eq(pushSubscriptions.id, sub.id))
DeleteSubscriptionNothing(rows, sub) == rows

DeleteSubscriptionOfUser(rows, sub) == {r \in rows : r.userId # sub.userId}

DeleteSubscription(rows, sub) == {r \in rows : r.id # sub.id}

\* One device promise has settled, resolved or rejected: Promise.allSettled
\* waits for the promises still pending (left) and then sendToUser returns.
AfterReplyRejecting(jr, left, statusCode, fail) ==
  IF fail \/ statusCode # StatusCreated
  THEN AfterSend([jr EXCEPT !.threw = jr.threw \cup {jr.userId}])
  ELSE IF left = {} THEN AfterSend(jr) ELSE [jr EXCEPT !.targets = left]

AfterReply(jr, left, statusCode, fail) ==
  IF left = {} THEN AfterSend(jr) ELSE [jr EXCEPT !.targets = left]

\* The push service answers one of the pending sendNotification calls.
SendDeliver(j) ==
  /\ job[j].pc = "deliver"
  /\ \E sub \in job[j].targets :
     \E statusCode \in Replies :
     \E fail \in DbFaults :
       LET left == job[j].targets \ {sub}
           deletes == IsExpired(statusCode)
           entry == [ job |-> j, run |-> job[j].run,
                      fired |-> job[j].firedAt[1] * MinutesPerDay
                                  + job[j].firedAt[2],
                      userId |-> job[j].userId, subId |-> sub.id,
                      endpoint |-> sub.endpoint, payload |-> job[j].payload,
                      statusCode |-> statusCode,
                      deleteFailed |-> deletes /\ fail,
                      at |-> Instant ]
       IN  /\ subs' = IF deletes /\ ~fail
                      THEN DeleteSubscription(subs, sub) ELSE subs
           /\ log' = log \cup {entry}
           /\ faults' = Spent(fail \/ statusCode # StatusCreated)
           /\ job' = [job EXCEPT ![j] =
                        AfterReply(job[j], left, statusCode, deletes /\ fail)]
  /\ UNCHANGED << now, day, prefs, events, nextId, probe, ticks, env, http >>

---------------------------------------------------------------------------
(* The routes that write push_subscriptions.  A handler runs from one      *)
(* await to the next in one step; every request of env.requests is made    *)
(* once.                                                                   *)

\* .update(pushSubscriptions).set({keys}).where(eq(endpoint, ...))
UpdateKeys(rows, endpoint, keys) ==
  { IF r.endpoint = endpoint THEN [r EXCEPT !.keys = keys] ELSE r : r \in rows }

\* db.insert(pushSubscriptions).values(subscriptionData): the unique constraint
\* on endpoint rejects a second row for an endpoint, and the table stays as it is.
InsertSubscriptionNoUnique(rows, row) == rows \cup {row}

InsertSubscription(rows, row) ==
  IF \E r \in rows : r.endpoint = row.endpoint THEN rows ELSE rows \cup {row}

\* POST /api/push/subscribe up to the result of `select ... where endpoint = ...`.
SubscribeSelect(req) ==
  /\ req.op = "subscribe"
  /\ http[req] = "new"
  /\ http' = [http EXCEPT ![req] =
                IF \E r \in subs : r.endpoint = req.endpoint
                THEN "existing" ELSE "absent"]
  /\ UNCHANGED << now, day, prefs, subs, events, nextId, job, log, probe, ticks,
                  faults, env >>

\* POST /api/push/subscribe from there on: the update of the keys, or the
\* insert; a rejected insert is answered 500.
SubscribeWrite(req) ==
  /\ req.op = "subscribe"
  /\ http[req] \in {"existing", "absent"}
  /\ IF http[req] = "existing"
     THEN /\ subs' = UpdateKeys(subs, req.endpoint, req.keys)
          /\ nextId' = nextId
          /\ http' = [http EXCEPT ![req] = "updated"]
     ELSE LET row == SubRow(nextId, req.userId, req.endpoint, req.keys)
          IN  /\ subs' = InsertSubscription(subs, row)
              /\ nextId' = nextId + 1
              /\ http' = [http EXCEPT ![req] =
                            IF row \in subs' THEN "inserted" ELSE "failed"]
  /\ UNCHANGED << now, day, prefs, events, job, log, probe, ticks, faults, env >>

\* POST /api/push/unsubscribe: delete where endpoint = req.body.endpoint.
Unsubscribe(req) ==
  /\ req.op = "unsubscribe"
  /\ http[req] = "new"
  /\ subs' = {r \in subs : r.endpoint # req.endpoint}
  /\ http' = [http EXCEPT ![req] = "deleted"]
  /\ UNCHANGED << now, day, prefs, events, nextId, job, log, probe, ticks,
                  faults, env >>

---------------------------------------------------------------------------
(* The routes that read and write notification_preferences.                *)

\* What GET /api/notifications/preferences answers when the user has no row.
DefaultPreferences ==
  [ tidesEnabled |-> TRUE,
    sportsEnabled |-> TRUE,
    astronomyEnabled |-> TRUE,
    agricultureEnabled |-> FALSE,
    culturalEnabled |-> TRUE,
    holidaysEnabled |-> TRUE,
    tidesFrequency |-> "immediate",
    sportsFrequency |-> "daily",
    astronomyFrequency |-> "daily",
    agricultureFrequency |-> "weekly",
    culturalFrequency |-> "weekly",
    holidaysFrequency |-> "daily",
    preferredNotificationTime |-> HHMM(9, 0),
    quietHoursStart |-> HHMM(22, 0),
    quietHoursEnd |-> HHMM(8, 0) ]

\* .select().from(notificationPreferences).where(eq(userId, ...)).limit(1)
PreferencesOf(rows, userId) ==
  {rows[k] : k \in {i \in 1..Len(rows) : rows[i].userId = userId}}

\* GET /api/notifications/preferences: the select, then the stored row or the
\* defaults as the answer.  Nothing is written.
GetPreferences(req) ==
  /\ req.op = "getPreferences"
  /\ http[req] = "new"
  /\ http' = [http EXCEPT ![req] =
                IF PreferencesOf(prefs, req.userId) = {}
                THEN "defaults" ELSE "stored"]
  /\ UNCHANGED << now, day, prefs, subs, events, nextId, job, log, probe, ticks,
                  faults, env >>

\* .update(notificationPreferences).set({...prefsData}).where(eq(userId, ...)):
\* the columns the body names are overwritten.
UpdatePreferences(rows, userId, prefsData) ==
  [k \in 1..Len(rows) |->
     IF rows[k].userId = userId THEN prefsData @@ rows[k] ELSE rows[k]]

\* db.insert(notificationPreferences).values({...prefsData, userId}): columns
\* the body leaves out take their defaults; the unique constraint on user_id
\* rejects a second row for the user, and the table stays as it is.
InsertPreferencesNoUnique(rows, userId, prefsData) ==
  Append(rows, prefsData @@ PrefRow(userId, DefaultCategories,
                                    DefaultPreferredTime, DefaultQuietStart,
                                    DefaultQuietEnd))

InsertPreferences(rows, userId, prefsData) ==
  IF PreferencesOf(rows, userId) # {} THEN rows
  ELSE Append(rows, prefsData @@ PrefRow(userId, DefaultCategories,
                                         DefaultPreferredTime, DefaultQuietStart,
                                         DefaultQuietEnd))

\* PUT /api/notifications/preferences up to the result of the select.
PutSelect(req) ==
  /\ req.op = "putPreferences"
  /\ http[req] = "new"
  /\ http' = [http EXCEPT ![req] =
                IF PreferencesOf(prefs, req.userId) # {}
                THEN "existing" ELSE "absent"]
  /\ UNCHANGED << now, day, prefs, subs, events, nextId, job, log, probe, ticks,
                  faults, env >>

\* PUT /api/notifications/preferences from there on: the update, or the insert;
\* a rejected insert is answered 500.
PutWrite(req) ==
  /\ req.op = "putPreferences"
  /\ http[req] \in {"existing", "absent"}
  /\ IF http[req] = "existing"
     THEN /\ prefs' = UpdatePreferences(prefs, req.userId, req.prefsData)
          /\ http' = [http EXCEPT ![req] = "updated"]
     ELSE /\ prefs' = InsertPreferences(prefs, req.userId, req.prefsData)
          /\ http' = [http EXCEPT ![req] =
                        IF Len(prefs') > Len(prefs) THEN "inserted" ELSE "failed"]
  /\ UNCHANGED << now, day, subs, events, nextId, job, log, probe, ticks,
                  faults, env >>

---------------------------------------------------------------------------
(* The wall clock.                                                         *)

\* The clock moves on by env.step minutes.  A cron minute is not left before
\* the scheduled cron callbacks were started in it, and is not entered while a run of
\* the minute before is still going (runs of one callback do not overlap).
Advance ==
  /\ ticks < env.horizon
  /\ now % TickInterval = 0 =>
       \A j \in env.jobs : job[j].firedAt = << day, now >>
  /\ (now + env.step) % TickInterval = 0 =>
       \A j \in JobIds : job[j].pc = "idle"
  /\ now' = (now + env.step) % MinutesPerDay
  /\ day' = day + ((now + env.step) \div MinutesPerDay)
  /\ ticks' = ticks + 1
  /\ UNCHANGED << prefs, subs, events, nextId, job, log, probe, faults, env, http >>

---------------------------------------------------------------------------
(* Specification Spec: two users, both cron callbacks, faults.             *)

MaxTicks == 1

MaxFaults == 1

\* A time text that does not parse: "9h00".
BadTime == << "9", "h", "0", "0" >>

\* What a user of the model may have stored: well-formed times, quiet hours
\* that cover the user's own send window, a preferred time that does not
\* parse, a quiet-hours bound that does not parse.
Healthy ==
  [ preferredTime |-> HHMM(9, 0), quietStart |-> HHMM(22, 0),
    quietEnd |-> HHMM(8, 0) ]

QuietInWindow ==
  [ preferredTime |-> << >>, quietStart |-> HHMM(8, 50),
    quietEnd |-> HHMM(9, 10) ]

BadPreferred ==
  [ preferredTime |-> BadTime, quietStart |-> << >>, quietEnd |-> << >> ]

BadQuiet ==
  [ preferredTime |-> HHMM(22, 0), quietStart |-> BadTime,
    quietEnd |-> HHMM(8, 0) ]

Morning == 8 * MinutesPerHour + 45

Evening == 21 * MinutesPerHour + 45

\* The starting points of Spec: the minute the clock starts at and what the
\* two users have stored.
Scenarios ==
  { [ start |-> Morning, p1 |-> Healthy,       p2 |-> Healthy ],
    [ start |-> Morning, p1 |-> QuietInWindow, p2 |-> Healthy ],
    [ start |-> Morning, p1 |-> Healthy,       p2 |-> QuietInWindow ],
    [ start |-> Morning, p1 |-> BadPreferred,  p2 |-> Healthy ],
    [ start |-> Morning, p1 |-> Healthy,       p2 |-> BadQuiet ],
    [ start |-> Evening, p1 |-> BadQuiet,      p2 |-> Healthy ],
    [ start |-> Evening, p1 |-> BadPreferred,  p2 |-> BadQuiet ] }

NoProbe == [fn |-> "none", args |-> << >>, result |-> FALSE]

Init ==
  /\ day = 0
  /\ \E sc \in Scenarios :
       /\ now = sc.start
       /\ prefs = << PrefRow(1, DefaultCategories, sc.p1.preferredTime,
                             sc.p1.quietStart, sc.p1.quietEnd),
                     PrefRow(2, DefaultCategories, sc.p2.preferredTime,
                             sc.p2.quietStart, sc.p2.quietEnd) >>
  /\ subs = { SubRow(1, 1, "e1", "k1"), SubRow(2, 1, "e2", "k2"),
              SubRow(3, 2, "e3", "k3") }
  /\ nextId = 4
  /\ events = { EventRow(1, "tide", now + 50, "Preia-mar", "Cascais") }
  /\ job = [j \in JobIds |-> IdleJob]
  /\ log = {}
  /\ probe = NoProbe
  /\ ticks = 0
  /\ faults = 0
  /\ env = [ step |-> TickInterval, horizon |-> MaxTicks,
             maxFaults |-> MaxFaults, jobs |-> CronJobs, requests |-> {},
             codes |-> {StatusCreated, StatusGone, StatusServerError} ]
  /\ http = [r \in env.requests |-> "new"]

Next ==
  \/ \E j \in CronJobs : CronFire(j)
  \/ \E j \in JobIds : GetUsersStep(j)
  \/ \E j \in JobIds : DigestUserStep(j)
  \/ \E j \in JobIds : ImmediateUserStep(j)
  \/ \E j \in JobIds : SendFetch(j)
  \/ \E j \in JobIds : SendDeliver(j)
  \/ Advance

Spec == Init /\ [][Next]_vars

---------------------------------------------------------------------------
(* Specification SpecPrune: a user with two devices, a second user with a  *)
(* device and no stored preferences, both cron callbacks, failing          *)
(* deliveries, and the first user's browser subscribing its endpoint e1    *)
(* again.                                                                  *)

InitPrune ==
  /\ day = 0
  /\ now = Morning
  /\ prefs = << PrefRow(1, DefaultCategories, Healthy.preferredTime,
                        Healthy.quietStart, Healthy.quietEnd) >>
  /\ subs = { SubRow(1, 1, "e1", "k1"), SubRow(2, 1, "e2", "k2"),
              SubRow(3, 2, "e3", "k3") }
  /\ nextId = 4
  /\ events = { EventRow(1, "tide", now + 50, "Preia-mar", "Cascais") }
  /\ job = [j \in JobIds |-> IdleJob]
  /\ log = {}
  /\ probe = NoProbe
  /\ ticks = 0
  /\ faults = 0
  /\ env = [ step |-> TickInterval, horizon |-> MaxTicks,
             maxFaults |-> MaxFaults, jobs |-> CronJobs,
             requests |-> { [op |-> "subscribe", userId |-> 1,
                             endpoint |-> "e1", keys |-> "k9"] },
             codes |-> {StatusCreated, StatusNotFound, StatusGone,
                        StatusServerError} ]
  /\ http = [r \in env.requests |-> "new"]

NextPrune ==
  \/ Next
  \/ \E req \in env.requests : SubscribeSelect(req)
  \/ \E req \in env.requests : SubscribeWrite(req)

SpecPrune == InitPrune /\ [][NextPrune]_vars

---------------------------------------------------------------------------
(* Specification SpecRetry: one user with two devices whose send window    *)
(* opens at the first tick, a tide that is either over or still ahead at   *)
(* the tick after, both cron callbacks, transient delivery failures.       *)

\* How long after the first tick the tide starts.
TideLeads == {10, 50}

InitRetry ==
  /\ day = 0
  /\ now = Morning
  /\ prefs = << PrefRow(1, DefaultCategories, HHMM(8, 45),
                        DefaultQuietStart, DefaultQuietEnd) >>
  /\ subs = { SubRow(1, 1, "e1", "k1"), SubRow(2, 1, "e2", "k2") }
  /\ nextId = 3
  /\ \E lead \in TideLeads :
       events = { EventRow(1, "tide", now + lead, "Preia-mar", "Cascais") }
  /\ job = [j \in JobIds |-> IdleJob]
  /\ log = {}
  /\ probe = NoProbe
  /\ ticks = 0
  /\ faults = 0
  /\ env = [ step |-> TickInterval, horizon |-> MaxTicks,
             maxFaults |-> MaxFaults, jobs |-> CronJobs, requests |-> {},
             codes |-> {StatusCreated, StatusServerError} ]
  /\ http = [r \in env.requests |-> "new"]

SpecRetry == InitRetry /\ [][Next]_vars

---------------------------------------------------------------------------
(* Specification SpecQuiet: isQuietHours applied to stored HH:MM texts.    *)

Hours == 0..(HoursPerDay - 1)

\* Minutes of the hour the quiet-hours bounds are drawn from.
QuietBoundMinutes == {0, 30}

\* Minutes of the hour the clock is read at: on, just before and just after
\* the bounds.
QuietClockMinutes == {0, 1, 29, 30, 31, 59}

InitQuiet ==
  /\ day = 0
  /\ \E h \in Hours, m \in QuietClockMinutes : now = h * MinutesPerHour + m
  /\ \E sh \in Hours, sm \in QuietBoundMinutes,
        eh \in Hours, em \in QuietBoundMinutes :
       /\ prefs = << PrefRow(1, DefaultCategories, DefaultPreferredTime,
                             HHMM(sh, sm), HHMM(eh, em)) >>
       /\ probe = [NoProbe EXCEPT !.args =
                     [ start |-> sh * MinutesPerHour + sm,
                       end |-> eh * MinutesPerHour + em ]]
  /\ subs = {}
  /\ nextId = 1
  /\ events = {}
  /\ job = [j \in JobIds |-> IdleJob]
  /\ log = {}
  /\ ticks = 0
  /\ faults = 0
  /\ env = [ step |-> TickInterval, horizon |-> 0, maxFaults |-> 0,
             jobs |-> {}, requests |-> {},
             codes |-> {StatusCreated} ]
  /\ http = [r \in env.requests |-> "new"]

\* isQuietHours(pref.quietHoursStart, pref.quietHoursEnd) at the clock's time.
ProbeQuietHours ==
  /\ probe.fn = "none"
  /\ probe' = [probe EXCEPT !.fn = "isQuietHours",
                 !.result = isQuietHours(prefs[1].quietHoursStart,
                                         prefs[1].quietHoursEnd)]
  /\ UNCHANGED << now, day, prefs, subs, events, nextId, job, log, ticks,
                  faults, env, http >>

SpecQuiet == InitQuiet /\ [][ProbeQuietHours]_vars

---------------------------------------------------------------------------
(* Specification SpecWindow: the digest's send-window check at any minute. *)

\* Minutes of the hour the preferred time is drawn from.
PreferredMinutes == {0, 1, 14, 15, 30, 45, 46, 59}

InitWindow ==
  /\ day = 0
  /\ now \in 0..(MinutesPerDay - 1)
  /\ \E h \in Hours, m \in PreferredMinutes :
       /\ prefs = << PrefRow(1, DefaultCategories, HHMM(h, m),
                             DefaultQuietStart, DefaultQuietEnd) >>
       /\ probe = [NoProbe EXCEPT !.args =
                     [ preferred |-> h * MinutesPerHour + m ]]
  /\ subs = {}
  /\ nextId = 1
  /\ events = {}
  /\ job = [j \in JobIds |-> IdleJob]
  /\ log = {}
  /\ ticks = 0
  /\ faults = 0
  /\ env = [ step |-> TickInterval, horizon |-> 0, maxFaults |-> 0,
             jobs |-> {}, requests |-> {},
             codes |-> {StatusCreated} ]
  /\ http = [r \in env.requests |-> "new"]

\* The time check of sendDailyDigest for the stored preferred time.
ProbeSendWindow ==
  /\ probe.fn = "none"
  /\ probe' = [probe EXCEPT !.fn = "inSendWindow",
                 !.result = inSendWindow(prefs[1].preferredNotificationTime)]
  /\ UNCHANGED << now, day, prefs, subs, events, nextId, job, log, ticks,
                  faults, env, http >>

SpecWindow == InitWindow /\ [][ProbeSendWindow]_vars

---------------------------------------------------------------------------
(* Specification SpecDay: one user with any preferred time, the digest     *)
(* callback alone, every cron minute of whole days, no faults.             *)

MaxDays == 2

TicksPerDay == MinutesPerDay \div TickInterval

\* Quiet hours that hold at no cron minute: 00:01 to 00:01.
OffGridQuiet == HHMM(0, 1)

InitDay ==
  /\ day = 0
  /\ now = 0
  /\ \E h \in Hours, m \in 0..(MinutesPerHour - 1) :
     \E quiet \in IF m = 0
                  THEN { << OffGridQuiet, OffGridQuiet >>,
                         << DefaultQuietStart, DefaultQuietEnd >> }
                  ELSE { << OffGridQuiet, OffGridQuiet >> } :
       /\ prefs = << PrefRow(1, DefaultCategories, HHMM(h, m),
                             quiet[1], quiet[2]) >>
       /\ probe = [NoProbe EXCEPT !.args =
                     [ preferred |-> h * MinutesPerHour + m ]]
  /\ subs = { SubRow(1, 1, "e1", "k1") }
  /\ nextId = 2
  /\ events = { EventRow(d, "tide", d * MinutesPerDay, "Preia-mar", "Cascais") :
                  d \in 1..MaxDays }
  /\ job = [j \in JobIds |-> IdleJob]
  /\ log = {}
  /\ ticks = 0
  /\ faults = 0
  /\ env = [ step |-> TickInterval, horizon |-> MaxDays * TicksPerDay,
             maxFaults |-> 0, jobs |-> {"digest"}, requests |-> {},
             codes |-> {StatusCreated} ]
  /\ http = [r \in env.requests |-> "new"]

NextDay ==
  \/ CronFire("digest")
  \/ GetUsersStep("digest")
  \/ DigestUserStep("digest")
  \/ SendFetch("digest")
  \/ SendDeliver("digest")
  \/ Advance

SpecDay == InitDay /\ [][NextDay]_vars

---------------------------------------------------------------------------
(* Specification SpecCategory: the digest tick at the preferred time of    *)
(* two users.  User 1 has one category switched off, or set to 'never', or *)
(* every category set to 'never'; user 2 has every category on.  The       *)
(* events table holds an event of each type of that category and one of    *)
(* another category.                                                       *)

Categories ==
  {"tides", "sports", "astronomy", "agriculture", "cultural", "holidays"}

\* The columns of a category and the event types getRelevantEvents pushes for it.
EnabledColumn ==
  [ tides |-> "tidesEnabled", sports |-> "sportsEnabled",
    astronomy |-> "astronomyEnabled", agriculture |-> "agricultureEnabled",
    cultural |-> "culturalEnabled", holidays |-> "holidaysEnabled" ]

FrequencyColumn ==
  [ tides |-> "tidesFrequency", sports |-> "sportsFrequency",
    astronomy |-> "astronomyFrequency", agriculture |-> "agricultureFrequency",
    cultural |-> "culturalFrequency", holidays |-> "holidaysFrequency" ]

CategoryTypes ==
  [ tides |-> {"tide"}, sports |-> {"match_liga", "uefa", "fifa"},
    astronomy |-> {"astronomy", "moon"}, agriculture |-> {"agriculture"},
    cultural |-> {"event_pt", "cultural"}, holidays |-> {"holiday"} ]

\* One type of a category other than c.
OtherType ==
  [ tides |-> "holiday", sports |-> "tide", astronomy |-> "uefa",
    agriculture |-> "moon", cultural |-> "agriculture", holidays |-> "cultural" ]

EnabledColumns == {EnabledColumn[c] : c \in Categories}

FrequencyColumns == {FrequencyColumn[c] : c \in Categories}

\* Every category enabled, with the given frequency.
AllCategories(frequency) ==
  [ col \in EnabledColumns \cup FrequencyColumns |->
      IF col \in EnabledColumns THEN TRUE ELSE frequency ]

\* What user 1 may have stored for the category c under test.
CategoryProfiles(c) ==
  [ everything |-> AllCategories("daily"),
    disabled |-> [AllCategories("daily") EXCEPT ![EnabledColumn[c]] = FALSE],
    never |-> [AllCategories("daily") EXCEPT ![FrequencyColumn[c]] = "never"],
    allNever |-> AllCategories("never"),
    allNeverOneOff |->
      [AllCategories("never") EXCEPT ![EnabledColumn[c]] = FALSE] ]

InitCategory ==
  /\ day = 0
  /\ now = 9 * MinutesPerHour
  /\ \E c \in Categories :
     \E kind \in {"disabled", "never", "allNever", "allNeverOneOff"} :
       /\ prefs = << PrefRow(1, CategoryProfiles(c)[kind], DefaultPreferredTime,
                             DefaultQuietStart, DefaultQuietEnd),
                     PrefRow(2, CategoryProfiles(c).everything,
                             DefaultPreferredTime, DefaultQuietStart,
                             DefaultQuietEnd) >>
       /\ LET types == CategoryTypes[c] \cup {OtherType[c]}
              ids == CHOOSE f \in [types -> 1..Cardinality(types)] :
                       \A s, t \in types : s # t => f[s] # f[t]
          IN  events = { EventRow(ids[t], t, now + MinutesPerHour, t, "Lisboa") :
                           t \in types }
       /\ probe = [NoProbe EXCEPT !.args = [category |-> c, kind |-> kind]]
  /\ subs = { SubRow(1, 1, "e1", "k1"), SubRow(2, 2, "e2", "k2") }
  /\ nextId = 3
  /\ job = [j \in JobIds |-> IdleJob]
  /\ log = {}
  /\ ticks = 0
  /\ faults = 0
  /\ env = [ step |-> TickInterval, horizon |-> MaxTicks, maxFaults |-> 0,
             jobs |-> {"digest"}, requests |-> {}, codes |-> {StatusCreated} ]
  /\ http = [r \in env.requests |-> "new"]

SpecCategory == InitCategory /\ [][NextDay]_vars

---------------------------------------------------------------------------
(* Specification SpecTides: the immediate check alone, for two users who   *)
(* differ in preferred time only (09:00, the time of the first tick, and   *)
(* 17:00), with one, two or six tides starting in the next quarter of an   *)
(* hour and one more starting 70 minutes ahead.                            *)

\* How many tides start within the hour after the first tick.
TideCounts == {1, 2, TideLimit + 1}

InitTides ==
  /\ day = 0
  /\ now = 9 * MinutesPerHour
  /\ prefs = << PrefRow(1, DefaultCategories, HHMM(9, 0),
                        DefaultQuietStart, DefaultQuietEnd),
                PrefRow(2, DefaultCategories, HHMM(17, 0),
                        DefaultQuietStart, DefaultQuietEnd) >>
  /\ subs = { SubRow(1, 1, "e1", "k1"), SubRow(2, 2, "e2", "k2") }
  /\ nextId = 3
  /\ \E n \in TideCounts :
       events = { EventRow(k, "tide", now + k, "Preia-mar", "Cascais") :
                    k \in 1..n }
                \cup { EventRow(n + 1, "tide", now + MinutesPerHour + 10,
                                "Baixa-mar", "Cascais") }
  /\ job = [j \in JobIds |-> IdleJob]
  /\ log = {}
  /\ probe = NoProbe
  /\ ticks = 0
  /\ faults = 0
  /\ env = [ step |-> TickInterval, horizon |-> MaxTicks, maxFaults |-> 0,
             jobs |-> {"immediate"}, requests |-> {},
             codes |-> {StatusCreated} ]
  /\ http = [r \in env.requests |-> "new"]

NextTides ==
  \/ CronFire("immediate")
  \/ GetUsersStep("immediate")
  \/ ImmediateUserStep("immediate")
  \/ SendFetch("immediate")
  \/ SendDeliver("immediate")
  \/ Advance

SpecTides == InitTides /\ [][NextTides]_vars

---------------------------------------------------------------------------
(* Specification SpecLong: the digest callback alone with a clock that     *)
(* moves minute by minute while a run is going, so that a run started at   *)
(* 09:00 may reach a user's time check at any minute up to 09:14.  One     *)
(* user, preferred time 09:00 or 09:10; one event starts at 09:12, another *)
(* at 20:00; the tables do not change.                                     *)

InitLong ==
  /\ day = 0
  /\ now = 9 * MinutesPerHour
  /\ \E m \in {0, 10} :
       /\ prefs = << PrefRow(1, AllCategories("daily"), HHMM(9, m),
                             DefaultQuietStart, DefaultQuietEnd) >>
       /\ probe = [NoProbe EXCEPT !.args =
                     [ preferred |-> 9 * MinutesPerHour + m ]]
  /\ subs = { SubRow(1, 1, "e1", "k1") }
  /\ nextId = 2
  /\ events = { EventRow(1, "holiday", now + 12, "Feriado", "Lisboa"),
                EventRow(2, "uefa", 20 * MinutesPerHour, "Jogo", "Porto") }
  /\ job = [j \in JobIds |-> IdleJob]
  /\ log = {}
  /\ ticks = 0
  /\ faults = 0
  /\ env = [ step |-> 1, horizon |-> MaxTicks * TickInterval, maxFaults |-> 0,
             jobs |-> {"digest"}, requests |-> {}, codes |-> {StatusCreated} ]
  /\ http = [r \in env.requests |-> "new"]

SpecLong == InitLong /\ [][NextDay]_vars

---------------------------------------------------------------------------
(* Specification SpecStore: the writers of push_subscriptions side by      *)
(* side.  User 1 has two devices; the immediate check may find them        *)
(* expired; the browser of e1 subscribes again, a second account           *)
(* subscribes the same endpoint e1, e1 is unsubscribed, and the second     *)
(* account asks to unsubscribe e2.                                         *)

StoreRequests ==
  { [op |-> "subscribe", userId |-> 1, endpoint |-> "e1", keys |-> "k9"],
    [op |-> "subscribe", userId |-> 2, endpoint |-> "e1", keys |-> "k8"],
    [op |-> "unsubscribe", userId |-> 1, endpoint |-> "e1", keys |-> ""],
    [op |-> "unsubscribe", userId |-> 2, endpoint |-> "e2", keys |-> ""] }

InitStore ==
  /\ day = 0
  /\ now = Morning
  /\ prefs = << PrefRow(1, DefaultCategories, Healthy.preferredTime,
                        Healthy.quietStart, Healthy.quietEnd) >>
  /\ subs = { SubRow(1, 1, "e1", "k1"), SubRow(2, 1, "e2", "k2") }
  /\ nextId = 3
  /\ events = { EventRow(1, "tide", now + 50, "Preia-mar", "Cascais") }
  /\ job = [j \in JobIds |-> IdleJob]
  /\ log = {}
  /\ probe = NoProbe
  /\ ticks = 0
  /\ faults = 0
  /\ env = [ step |-> TickInterval, horizon |-> MaxTicks,
             maxFaults |-> MaxFaults, jobs |-> {"immediate"},
             requests |-> StoreRequests,
             codes |-> {StatusCreated, StatusGone} ]
  /\ http = [r \in env.requests |-> "new"]

NextStore ==
  \/ NextTides
  \/ \E req \in env.requests : SubscribeSelect(req)
  \/ \E req \in env.requests : SubscribeWrite(req)
  \/ \E req \in env.requests : Unsubscribe(req)

SpecStore == InitStore /\ [][NextStore]_vars

---------------------------------------------------------------------------
(* Specification SpecOverlap: the digest tick and the immediate check fire *)
(* on the same cron minute, 09:00, for one user with two devices whose     *)
(* send window opens then and who has a tide ahead; each delivery may be   *)
(* answered 410, often enough for both callbacks to be told so for the     *)
(* same registration.                                                      *)

OverlapRows == { SubRow(1, 1, "e1", "k1"), SubRow(2, 1, "e2", "k2") }

InitOverlap ==
  /\ day = 0
  /\ now = 9 * MinutesPerHour
  /\ prefs = << PrefRow(1, DefaultCategories, HHMM(9, 0),
                        DefaultQuietStart, DefaultQuietEnd) >>
  /\ subs = OverlapRows
  /\ nextId = 3
  /\ events = { EventRow(1, "tide", now + 50, "Preia-mar", "Cascais") }
  /\ job = [j \in JobIds |-> IdleJob]
  /\ log = {}
  /\ probe = NoProbe
  /\ ticks = 0
  /\ faults = 0
  /\ env = [ step |-> TickInterval, horizon |-> MaxTicks,
             maxFaults |-> MaxFaults + 1, jobs |-> CronJobs, requests |-> {},
             codes |-> {StatusCreated, StatusGone} ]
  /\ http = [r \in env.requests |-> "new"]

SpecOverlap == InitOverlap /\ [][Next]_vars

---------------------------------------------------------------------------
(* Specification SpecHorizon: both callbacks at 09:00 for one user whose   *)
(* send window opens then, with events on and around the bounds of the two *)
(* event queries: a tide starting this minute, one starting an hour from   *)
(* now, a holiday a minute ago, one a day from now and one a day and a     *)
(* minute from now.                                                        *)

InitHorizon ==
  /\ day = 0
  /\ now = 9 * MinutesPerHour
  /\ prefs = << PrefRow(1, DefaultCategories, HHMM(9, 0),
                        DefaultQuietStart, DefaultQuietEnd) >>
  /\ subs = { SubRow(1, 1, "e1", "k1") }
  /\ nextId = 2
  /\ events =
       { EventRow(1, "tide", now, "Preia-mar", "Cascais"),
         EventRow(2, "tide", now + TideHorizon, "Baixa-mar", "Cascais"),
         EventRow(3, "holiday", now - 1, "Ontem", "Lisboa"),
         EventRow(4, "holiday", now + DigestHorizon, "Feriado", "Lisboa"),
         EventRow(5, "holiday", now + DigestHorizon + 1, "Ponte", "Lisboa") }
  /\ job = [j \in JobIds |-> IdleJob]
  /\ log = {}
  /\ probe = NoProbe
  /\ ticks = 0
  /\ faults = 0
  /\ env = [ step |-> TickInterval, horizon |-> MaxTicks, maxFaults |-> 0,
             jobs |-> CronJobs, requests |-> {}, codes |-> {StatusCreated} ]
  /\ http = [r \in env.requests |-> "new"]

SpecHorizon == InitHorizon /\ [][Next]_vars

---------------------------------------------------------------------------
(* Specification SpecTypes: the digest tick at the preferred time of one   *)
(* user who has stored any combination of enabled flags and frequencies;   *)
(* the events table holds a tide, a holiday and a UEFA match of today.     *)

\* The frequencies the tides column is drawn from, and those of the other
\* five columns.
TidesFrequencies == {"immediate", "daily", "weekly", "never"}

OtherFrequencies == {"daily", "never"}

InitTypes ==
  /\ day = 0
  /\ now = 9 * MinutesPerHour
  /\ \E enabled \in [EnabledColumns -> BOOLEAN] :
     \E tidesFrequency \in TidesFrequencies :
     \E frequency \in [FrequencyColumns \ {"tidesFrequency"} -> OtherFrequencies] :
       prefs = << PrefRow(1, enabled @@ frequency
                               @@ [tidesFrequency |-> tidesFrequency],
                          DefaultPreferredTime, DefaultQuietStart,
                          DefaultQuietEnd) >>
  /\ subs = { SubRow(1, 1, "e1", "k1") }
  /\ nextId = 2
  /\ events = { EventRow(1, "tide", now + 60, "Preia-mar", "Cascais"),
                EventRow(2, "holiday", now + 120, "Feriado", "Lisboa"),
                EventRow(3, "uefa", now + 180, "Jogo", "Porto") }
  /\ job = [j \in JobIds |-> IdleJob]
  /\ log = {}
  /\ probe = NoProbe
  /\ ticks = 0
  /\ faults = 0
  /\ env = [ step |-> TickInterval, horizon |-> MaxTicks, maxFaults |-> 0,
             jobs |-> {"digest"}, requests |-> {}, codes |-> {StatusCreated} ]
  /\ http = [r \in env.requests |-> "new"]

SpecTypes == InitTypes /\ [][NextDay]_vars

---------------------------------------------------------------------------
(* Specification SpecPrefs: the preference routes alone.  User 1 has a     *)
(* stored row (the column defaults), user 2 has none.  Each reads the      *)
(* preferences once; user 2 saves twice (two requests that may overlap),   *)
(* user 1 saves a change.                                                  *)

PrefsRequests ==
  { [op |-> "getPreferences", userId |-> 1, prefsData |-> << >>],
    [op |-> "getPreferences", userId |-> 2, prefsData |-> << >>],
    [op |-> "putPreferences", userId |-> 2,
     prefsData |-> [sportsEnabled |-> FALSE]],
    [op |-> "putPreferences", userId |-> 2,
     prefsData |-> [holidaysFrequency |-> "never"]],
    [op |-> "putPreferences", userId |-> 1,
     prefsData |-> [astronomyEnabled |-> FALSE]] }

InitPrefs ==
  /\ day = 0
  /\ now = 9 * MinutesPerHour
  /\ prefs = << PrefRow(1, DefaultCategories, DefaultPreferredTime,
                        DefaultQuietStart, DefaultQuietEnd) >>
  /\ subs = { SubRow(1, 1, "e1", "k1"), SubRow(2, 2, "e2", "k2") }
  /\ nextId = 3
  /\ events = { EventRow(1, "tide", now + 50, "Preia-mar", "Cascais") }
  /\ job = [j \in JobIds |-> IdleJob]
  /\ log = {}
  /\ probe = NoProbe
  /\ ticks = 0
  /\ faults = 0
  /\ env = [ step |-> TickInterval, horizon |-> 0, maxFaults |-> 0,
             jobs |-> {}, requests |-> PrefsRequests,
             codes |-> {StatusCreated} ]
  /\ http = [r \in env.requests |-> "new"]

NextPrefs ==
  \/ \E req \in env.requests : GetPreferences(req)
  \/ \E req \in env.requests : PutSelect(req)
  \/ \E req \in env.requests : PutWrite(req)

SpecPrefs == InitPrefs /\ [][NextPrefs]_vars

---------------------------------------------------------------------------
(* Specification SpecNoRow: both callbacks at 09:00 and 09:15 for user 1,  *)
(* who has a stored row (the column defaults) and a device, and user 2,    *)
(* who has a device and no row; user 2 reads the preferences and later     *)
(* saves them.  A tide starts at 09:50.                                    *)

NoRowRequests ==
  { [op |-> "getPreferences", userId |-> 2, prefsData |-> << >>],
    [op |-> "putPreferences", userId |-> 2,
     prefsData |-> [sportsEnabled |-> FALSE]] }

InitNoRow ==
  /\ day = 0
  /\ now = 9 * MinutesPerHour
  /\ prefs = << PrefRow(1, DefaultCategories, DefaultPreferredTime,
                        DefaultQuietStart, DefaultQuietEnd) >>
  /\ subs = { SubRow(1, 1, "e1", "k1"), SubRow(2, 2, "e2", "k2") }
  /\ nextId = 3
  /\ events = { EventRow(1, "tide", now + 50, "Preia-mar", "Cascais") }
  /\ job = [j \in JobIds |-> IdleJob]
  /\ log = {}
  /\ probe = NoProbe
  /\ ticks = 0
  /\ faults = 0
  /\ env = [ step |-> TickInterval, horizon |-> MaxTicks, maxFaults |-> 0,
             jobs |-> CronJobs, requests |-> NoRowRequests,
             codes |-> {StatusCreated} ]
  /\ http = [r \in env.requests |-> "new"]

NextNoRow ==
  \/ Next
  \/ \E req \in env.requests : GetPreferences(req)
  \/ \E req \in env.requests : PutSelect(req)
  \/ \E req \in env.requests : PutWrite(req)

SpecNoRow == InitNoRow /\ [][NextNoRow]_vars

---------------------------------------------------------------------------
(* Specification SpecGate: the digest tick of 09:00 alone, for user 1      *)
(* (preferred time 09:00, a device, a holiday ahead) and user 2, who       *)
(* passes every check of the tick or fails one of them: in quiet hours,    *)
(* without a device, outside the send window, or with no event of an       *)
(* enabled category ahead.  A database call may fail.                      *)

\* What user 2 has stored, and whether user 2 has a device.
GateCases ==
  { [ kind |-> "passes", categories |-> AllCategories("daily"),
      preferredTime |-> HHMM(9, 0), quietStart |-> HHMM(22, 0),
      quietEnd |-> HHMM(8, 0), device |-> TRUE ],
    [ kind |-> "quiet", categories |-> AllCategories("daily"),
      preferredTime |-> HHMM(9, 0), quietStart |-> HHMM(8, 50),
      quietEnd |-> HHMM(9, 10), device |-> TRUE ],
    [ kind |-> "noDevice", categories |-> AllCategories("daily"),
      preferredTime |-> HHMM(9, 0), quietStart |-> HHMM(22, 0),
      quietEnd |-> HHMM(8, 0), device |-> FALSE ],
    [ kind |-> "outsideWindow", categories |-> AllCategories("daily"),
      preferredTime |-> HHMM(8, 45), quietStart |-> HHMM(22, 0),
      quietEnd |-> HHMM(8, 0), device |-> TRUE ],
    [ kind |-> "noEvent",
      categories |-> [AllCategories("daily") EXCEPT !.holidaysEnabled = FALSE],
      preferredTime |-> HHMM(9, 0), quietStart |-> HHMM(22, 0),
      quietEnd |-> HHMM(8, 0), device |-> TRUE ] }

InitGate ==
  /\ day = 0
  /\ now = 9 * MinutesPerHour
  /\ \E case \in GateCases :
     \E first \in {1, 2} :
       LET row1 == PrefRow(1, AllCategories("daily"), HHMM(9, 0),
                           DefaultQuietStart, DefaultQuietEnd)
           row2 == PrefRow(2, case.categories, case.preferredTime,
                           case.quietStart, case.quietEnd)
       IN  /\ prefs = IF first = 1 THEN << row1, row2 >> ELSE << row2, row1 >>
           /\ subs = { SubRow(1, 1, "e1", "k1") }
                       \cup (IF case.device THEN { SubRow(2, 2, "e2", "k2") }
                             ELSE {})
           /\ probe = [NoProbe EXCEPT !.args = [kind |-> case.kind]]
  /\ nextId = 3
  /\ events = { EventRow(1, "holiday", now + 3 * MinutesPerHour, "Feriado",
                         "Lisboa") }
  /\ job = [j \in JobIds |-> IdleJob]
  /\ log = {}
  /\ ticks = 0
  /\ faults = 0
  /\ env = [ step |-> TickInterval, horizon |-> MaxTicks,
             maxFaults |-> MaxFaults, jobs |-> {"digest"}, requests |-> {},
             codes |-> {StatusCreated} ]
  /\ http = [r \in env.requests |-> "new"]

SpecGate == InitGate /\ [][NextDay]_vars

---------------------------------------------------------------------------
(* Specification SpecStartup: the immediate check as cron callback and as  *)
(* the run one minute after server start, with a clock that moves minute   *)
(* by minute.  The server starts at 08:44 or 08:50; one user with a        *)
(* device; a tide starts at 09:30.                                         *)

BootMinutes == { 8 * MinutesPerHour + 44, 8 * MinutesPerHour + 50 }

InitStartup ==
  /\ day = 0
  /\ now \in BootMinutes
  /\ prefs = << PrefRow(1, DefaultCategories, DefaultPreferredTime,
                        DefaultQuietStart, DefaultQuietEnd) >>
  /\ subs = { SubRow(1, 1, "e1", "k1") }
  /\ nextId = 2
  /\ events = { EventRow(1, "tide", 9 * MinutesPerHour + 30, "Preia-mar",
                         "Cascais") }
  /\ job = [j \in JobIds |-> IdleJob]
  /\ log = {}
  /\ probe = NoProbe
  /\ ticks = 0
  /\ faults = 0
  /\ env = [ step |-> 1, horizon |-> (MaxTicks + 1) * TickInterval,
             maxFaults |-> 0, jobs |-> {"immediate"}, requests |-> {},
             codes |-> {StatusCreated}, boot |-> Instant ]
  /\ http = [r \in env.requests |-> "new"]

NextStartup ==
  \/ NextTides
  \/ StartupFire
  \/ GetUsersStep("startup")
  \/ ImmediateUserStep("startup")
  \/ SendFetch("startup")
  \/ SendDeliver("startup")

SpecStartup == InitStartup /\ [][NextStartup]_vars

---------------------------------------------------------------------------
(* Specification SpecAgree: the scheduler's isQuietHours and               *)
(* PushNotificationService.isQuietHours applied to the same stored HH:MM   *)
(* texts at the same minute.                                               *)

\* Both predicates for the stored quiet hours at the clock's time.
ProbeBothQuietHours ==
  /\ probe.fn = "none"
  /\ probe' = [probe EXCEPT !.fn = "both",
                 !.result =
                   [ scheduler |->
                       isQuietHours(
                         OrDefault(prefs[1].quietHoursStart, DefaultQuietStart),
                         OrDefault(prefs[1].quietHoursEnd, DefaultQuietEnd)),
                     service |-> PushNotificationService_isQuietHours(prefs[1]) ]]
  /\ UNCHANGED << now, day, prefs, subs, events, nextId, job, log, ticks,
                  faults, env, http >>

SpecAgree == InitQuiet /\ [][ProbeBothQuietHours]_vars

---------------------------------------------------------------------------
(* Claims about the time-window evaluator.                                 *)

\* C4: for every quiet start, quiet end and current time, isQuietHours is true
\* iff (start <= end and start <= now <= end) or (start > end and (now >= start
\* or now <= end)), all three taken as minutes since midnight.
C4_QuietHoursFormula ==
  probe.fn = "isQuietHours" =>
    LET start == probe.args.start
        end == probe.args.end
    IN  probe.result <=>
          \/ start <= end /\ start <= now /\ now <= end
          \/ start > end /\ (now >= start \/ now <= end)

\* C4 witness: an overnight window (22:00-08:00) probed at its inclusive end,
\* 08:00, where the check is true.
C4_Witness ==
  /\ probe.fn = "isQuietHours"
  /\ probe.args.start = 22 * MinutesPerHour
  /\ probe.args.end = 8 * MinutesPerHour
  /\ now = 8 * MinutesPerHour
  /\ probe.result

\* C5: when quietHoursStart equals quietHoursEnd the quiet-hours check is
\* false at every current time.
C5_EqualBoundsNeverQuiet ==
  (probe.fn = "isQuietHours" /\ probe.args.start = probe.args.end) =>
    ~probe.result

\* C6: the digest's send-window check passes iff 0 <= now - preferredTime < 15
\* in minutes since midnight; it fails for every negative difference and every
\* difference of 15 or more, with no wraparound across midnight.
C6_SendWindowFormula ==
  probe.fn = "inSendWindow" =>
    (probe.result <=>
       (0 <= now - probe.args.preferred /\ now - probe.args.preferred < SendWindow))

\* C6 witness: preferred time 23:59 probed at 00:05, six minutes later on the
\* clock face, where the check fails because the window does not wrap.
C6_Witness ==
  /\ probe.fn = "inSendWindow"
  /\ probe.args.preferred = 23 * MinutesPerHour + 59
  /\ now = 5
  /\ ~probe.result

---------------------------------------------------------------------------
(* Claims about the digest over whole days (SpecDay).                      *)

\* The runs of the digest callback that attempted a delivery to the user on
\* calendar day d.
DigestRunsOn(userId, d) ==
  { a.run : a \in { b \in log : /\ b.job = "digest"
                                /\ b.userId = userId
                                /\ b.payload.tag.kind = "daily-digest"
                                /\ b.at \div MinutesPerDay = d } }

\* C1: with digest ticks exactly at minutes 0, 15, 30, 45, each evaluating the
\* user at its firing minute, at most one tick per calendar day passes the
\* send-window check for any preferred time, so a user is sent at most one
\* digest per day.
C1_AtMostOneDigestPerDay ==
  \A d \in 0..MaxDays : Cardinality(DigestRunsOn(1, d)) <= 1

\* C1 witness: preferred time 09:07; the 09:15 tick of day 0 and the 09:15 tick
\* of day 1 each sent the digest.
C1_Witness ==
  /\ probe.args.preferred = 9 * MinutesPerHour + 7
  /\ day = 1
  /\ now > 10 * MinutesPerHour
  /\ \E a \in log : a.at = 9 * MinutesPerHour + 15
  /\ \E a \in log : a.at = MinutesPerDay + 9 * MinutesPerHour + 15

\* The user of SpecDay is quiet at no cron minute.
NeverQuietAtTicks ==
  /\ prefs[1].quietHoursStart = OffGridQuiet
  /\ prefs[1].quietHoursEnd = OffGridQuiet

LastTickOfDay == MinutesPerDay - TickInterval

---------------------------------------------------------------------------
(* Claims about one tick over several users (Spec).                        *)

\* The stored preferences of a user.
RowOf(userId) == prefs[CHOOSE k \in 1..Len(prefs) : prefs[k].userId = userId]

QuietNow(userId) ==
  isQuietHours(OrDefault(RowOf(userId).quietHoursStart, DefaultQuietStart),
               OrDefault(RowOf(userId).quietHoursEnd, DefaultQuietEnd))

\* C3: a user whose quiet-hours check is true in a tick is absent from the
\* contexts getUsersForNotifications returns, and neither callback calls
\* sendToUser for that user in that tick, also inside the user's send window;
\* so every delivery attempted in the current minute goes to a user who is not
\* in quiet hours.
C3_QuietUserExcluded ==
  /\ \A j \in JobIds : \A u \in job[j].quietSeen :
       /\ \A k \in 1..Len(job[j].contexts) : job[j].contexts[k].userId # u
       /\ job[j].userId # u
       /\ ~\E a \in log : a.job = j /\ a.run = job[j].run /\ a.userId = u
  /\ \A a \in log : a.at = Instant => ~QuietNow(a.userId)

\* C3 witness: at 09:00 user 1, quiet from 08:50 to 09:10 and with preferred
\* time 09:00, was skipped by the digest run that sent user 2 its digest.
C3_Witness ==
  /\ now = 9 * MinutesPerHour
  /\ job["digest"].ended = "completed"
  /\ 1 \in job["digest"].quietSeen
  /\ inSendWindow(RowOf(1).preferredNotificationTime)
  /\ \E a \in log : /\ a.job = "digest" /\ a.run = job["digest"].run
                    /\ a.userId = 2 /\ a.at = Instant

\* The users a tick of the current minute has to consider: stored preferences,
\* not in quiet hours, at least one subscription.
Eligible ==
  { prefs[k].userId : k \in { i \in 1..Len(prefs) :
      /\ ~QuietNow(prefs[i].userId)
      /\ \E s \in subs : s.userId = prefs[i].userId } }

\* A run of callback j started in the current minute is over.
RunOver(j) ==
  /\ job[j].firedAt = << day, now >>
  /\ job[j].ended \in {"completed", "caught"}

\* C7: when the select of one user's subscriptions fails in
\* getUsersForNotifications, that user alone is dropped: every other eligible
\* user is still processed by the same tick.
C7_SubscriptionFailureIsolated ==
  \A j \in CronJobs :
    (RunOver(j) /\ job[j].subFail # 0) =>
      \A u \in Eligible \ {job[j].subFail} : u \in job[j].handled

\* C8: when the event select of one user throws in sendDailyDigest or in
\* sendImmediateNotifications, every remaining candidate user of that tick is
\* still checked.
C8_EventQueryFailureIsolated ==
  \A j \in CronJobs :
    (RunOver(j) /\ job[j].queryFail # 0) =>
      \A k \in 1..Len(job[j].contexts) :
        job[j].contexts[k].userId \in job[j].handled

\* A stored time text that reads as HH:MM (null takes the default).
WellFormedTime(s) ==
  \/ s = << >>
  \/ /\ Len(s) = 5
     /\ s[3] = ":"
     /\ \A i \in {1, 2, 4, 5} : s[i] \in DigitChars
     /\ DecVal(SubSeq(s, 1, 2)) < HoursPerDay
     /\ DecVal(SubSeq(s, 4, 5)) < MinutesPerHour

WellFormedTimes(row) ==
  /\ WellFormedTime(row.preferredNotificationTime)
  /\ WellFormedTime(row.quietHoursStart)
  /\ WellFormedTime(row.quietHoursEnd)

\* C9: a user whose preferred time or quiet-hours bound does not parse as HH:MM
\* is skipped: no digest is sent to that user.
C9_MalformedTimeSkipped ==
  \A a \in log :
    a.payload.tag.kind = "daily-digest" => WellFormedTimes(RowOf(a.userId))

---------------------------------------------------------------------------
(* Claims about pruning (SpecPrune).                                       *)

\* After attempt a the row it went to is gone, and every attempt of a tick
\* fired later went to another row (the endpoint was subscribed again).
Pruned(a) ==
  /\ \A r \in subs : r.id # a.subId
  /\ \A b \in log : b.fired > a.at => b.subId # a.subId

---------------------------------------------------------------------------
(* Claims about sendToUser and its device replies (SpecPrune).             *)

\* The delivery attempts a step adds to the log.
Attempted == log' \ log

\* A reply that is neither success nor 404/410.
Transient(statusCode) ==
  statusCode \notin {StatusCreated, StatusNotFound, StatusGone}

\* C11: a delivery attempt that fails with a transient error (any error other
\* than 404/410) leaves that registration and every other registration in the
\* subscription store unchanged.
C11_TransientLeavesStore ==
  [][ (\E a \in Attempted : Transient(a.statusCode)) => subs' = subs ]_vars

\* C11 witness: a delivery was answered 500 and the row it went to is stored,
\* with all three rows of the start still there.
C11_Witness ==
  /\ \E a \in log : /\ a.statusCode = StatusServerError
                    /\ \E r \in subs : r.id = a.subId
  /\ Cardinality(subs) = 3

---------------------------------------------------------------------------
(* Claims about the tick after a failed delivery (SpecRetry).              *)

\* The instant the latest run of callback j was started at.
FiredInstant(j) == job[j].firedAt[1] * MinutesPerDay + job[j].firedAt[2]

\* The latest run of callback j went through without any caught error.
CleanRun(j) ==
  /\ job[j].ended = "completed"
  /\ job[j].subFail = 0
  /\ job[j].queryFail = 0
  /\ job[j].threw = {}

\* The tick after attempt a attempted the same kind of notification to the
\* same registration.
AttemptedAgain(a) ==
  \E b \in log : /\ b.fired = a.fired + TickInterval
                 /\ b.job = a.job
                 /\ b.subId = a.subId
                 /\ b.payload.tag = a.payload.tag

TideStillAhead(a) ==
  LET from == a.fired + TickInterval
      ahead == {e \in events : /\ e.type = "tide" /\ e.startAt >= from
                               /\ e.startAt <= from + TideHorizon}
  IN  /\ \E e \in ahead : e.id = a.payload.tag.id
      /\ Cardinality(ahead) <= TideLimit

---------------------------------------------------------------------------
(* Claims about one sendToUser call over several devices (SpecPrune).      *)

\* C13: sendToUser returns normally to its caller for every combination of
\* per-device outcomes (delivered, 404/410, transient error), also when the
\* delete of an expired registration fails: whatever one device's reply, the
\* call does not throw, the callback's run is not ended, and the attempts on
\* the user's other devices stay pending until each is answered.
C13_DeviceOutcomesNeverThrow ==
  [][ \A j \in JobIds :
        (job[j].pc = "deliver" /\ job'[j] # job[j]) =>
          \E a \in Attempted :
            /\ a.job = j
            /\ job'[j].threw = job[j].threw
            /\ job'[j].ended # "caught"
            /\ IF \E s \in job[j].targets : s.id # a.subId
               THEN /\ job'[j].pc = "deliver"
                    /\ job'[j].targets = {s \in job[j].targets : s.id # a.subId}
               ELSE job'[j].pc \in {"send", "loop", "idle"} ]_vars

\* C13 witness: in one call for user 1 a device was answered 410 and the delete
\* of its row failed, the user's other device was attempted too, and the
\* callback went on without a throw.
C13_Witness ==
  \E a \in log : \E b \in log :
    /\ a.statusCode = StatusGone /\ a.deleteFailed
    /\ b.job = a.job /\ b.run = a.run /\ b.payload = a.payload
    /\ b.userId = a.userId /\ b.subId # a.subId
    /\ job[a.job].run = a.run
    /\ job[a.job].threw = {}
    /\ job[a.job].ended = "completed"

---------------------------------------------------------------------------
(* Claims about categories (SpecCategory).                                 *)

Enabled(row, c) == row[EnabledColumn[c]]

Frequency(row, c) == row[FrequencyColumn[c]]

\* The event types user userId must not be sent: those of the categories for
\* which Off(row, c) holds.
Withheld(userId, Off(_, _)) ==
  UNION {CategoryTypes[c] : c \in {d \in Categories : Off(RowOf(userId), d)}}

Disabled(row, c) == ~Enabled(row, c)

\* C14: for every user with a category disabled (tidesEnabled = false and
\* likewise for each of the six), no event of that category's types is among
\* the events the user's digest payload is built from, whatever the other
\* users of the tick have stored; nor is its title in a digest sent to the user
\* (the events of SpecCategory have their type as title).
C14_DisabledCategoryWithheld ==
  /\ \A j \in JobIds : \A k \in 1..Len(job[j].relevantEvents) :
       job[j].relevantEvents[k].type \notin Withheld(job[j].userId, Disabled)
  /\ \A a \in log : a.payload.tag.kind = "daily-digest" =>
       \A k \in 1..Len(a.payload.body) :
         a.payload.body[k] \notin Withheld(a.userId, Disabled)

\* C14 witness: user 1 has tides disabled and user 2 has them on; the 09:00
\* tick sent user 1 a digest of the holiday event alone and user 2 a digest of
\* both events.
C14_Witness ==
  /\ probe.args = [category |-> "tides", kind |-> "disabled"]
  /\ job["digest"].ended = "completed"
  /\ \E a \in log : /\ a.userId = 1 /\ a.payload.title.count = 1
                    /\ a.payload.body = << "holiday" >>
  /\ \E a \in log : /\ a.userId = 2 /\ a.payload.title.count = 2
                    /\ "tide" \in Range(a.payload.body)

IsNever(row, c) == Frequency(row, c) = "never"

\* C15: a category with frequency 'never' contributes no events whatever its
\* enabled flag, and a user whose six categories all have frequency 'never' is
\* never sent a digest, also when matching events exist at the preferred time.
C15_NeverSuppresses ==
  /\ \A j \in JobIds : \A k \in 1..Len(job[j].relevantEvents) :
       job[j].relevantEvents[k].type \notin Withheld(job[j].userId, IsNever)
  /\ \A i \in 1..Len(prefs) :
       (\A c \in Categories : IsNever(prefs[i], c)) =>
         /\ \A a \in log : a.userId = prefs[i].userId =>
              a.payload.tag.kind # "daily-digest"
         /\ \A j \in JobIds : job[j].userId = prefs[i].userId =>
              job[j].payload.tag.kind # "daily-digest"

\* C15 witness: user 1 has every category enabled with frequency 'never'; at
\* 09:00, the preferred time, with events of enabled categories ahead, the
\* digest run went through user 1 and sent a digest to user 2 only.
C15_Witness ==
  /\ probe.args.kind = "allNever"
  /\ \A c \in Categories : Enabled(prefs[1], c) /\ IsNever(prefs[1], c)
  /\ now = 9 * MinutesPerHour
  /\ inSendWindow(prefs[1].preferredNotificationTime)
  /\ events # {}
  /\ job["digest"].ended = "completed"
  /\ 1 \in job["digest"].handled
  /\ \E a \in log : a.userId = 2
  /\ \A a \in log : a.userId = 2

---------------------------------------------------------------------------
(* Claims about the immediate tide alerts (SpecTides).                     *)

\* The tides that start within the hour after instant t (both ends included,
\* as the query's gte and lte).
TidesAhead(t) ==
  {e.id : e \in {x \in events : /\ x.type = "tide" /\ x.startAt >= t
                                /\ x.startAt <= t + TideHorizon}}

\* The alerts the tick fired at t attempted for the user: tide id and
\* registration of each attempt.
AlertsSent(userId, t) ==
  { << a.payload.tag.id, a.subId >> :
      a \in {b \in log : /\ b.userId = userId /\ b.fired = t
                         /\ b.payload.tag.kind = "tide"} }

TidesAlerted(userId, t) == {p[1] : p \in AlertsSent(userId, t)}

\* The users the claim is about: outside quiet hours with a subscription (a
\* candidate of the run), tides enabled with frequency 'immediate'.
AlertUsers ==
  {u \in job["immediate"].handled :
     RowOf(u).tidesEnabled /\ RowOf(u).tidesFrequency = "immediate"}

---------------------------------------------------------------------------
(* Claims about a digest run that takes minutes (SpecLong).                *)

\* C17: also when a digest tick runs long, each user's send-window check
\* reading the clock at the moment that user is processed, no user is sent two
\* digests on the same calendar day.
C17_NoSecondDigestWhenTickRunsLong ==
  \A i \in 1..Len(prefs) : \A d \in 0..day :
    Cardinality(DigestRunsOn(prefs[i].userId, d)) <= 1

\* The attempt was made inside the send window of the user's preferred time.
InWindowOf(a, preferred) ==
  LET minute == a.at % MinutesPerDay
  IN  preferred <= minute /\ minute < preferred + SendWindow

\* C18: two runs of sendDailyDigest within the same 15-minute send window,
\* with the preference, subscription and event tables unchanged in between,
\* send the user an identical digest payload (same title, same body, tag
\* 'daily-digest').
C18_SameWindowSameDigest ==
  \A a \in log : \A b \in log :
    ( /\ a.payload.tag.kind = "daily-digest"
      /\ b.payload.tag.kind = "daily-digest"
      /\ a.userId = b.userId
      /\ a.at \div MinutesPerDay = b.at \div MinutesPerDay
      /\ InWindowOf(a, probe.args.preferred)
      /\ InWindowOf(b, probe.args.preferred) ) => a.payload = b.payload

---------------------------------------------------------------------------
(* Claims about the subscription store under concurrent writers            *)
(* (SpecStore).                                                            *)

\* At most one row per endpoint.
EndpointUnique ==
  \A r \in subs : \A q \in subs : r.endpoint = q.endpoint => r = q

\* The subscribe handlers whose write happens in this step while their
\* endpoint is stored.
WritesToStored ==
  {req \in env.requests :
     /\ req.op = "subscribe"
     /\ http'[req] # http[req]
     /\ http[req] \in {"existing", "absent"}
     /\ \E r \in subs : r.endpoint = req.endpoint}

---------------------------------------------------------------------------
(* Claims about overlapping sendToUser calls (SpecOverlap).                *)

\* The rows some attempt found expired and whose delete went through.
ReportedExpired ==
  {r \in OverlapRows :
     \E a \in log : /\ a.subId = r.id /\ IsExpired(a.statusCode)
                    /\ ~a.deleteFailed}

---------------------------------------------------------------------------
(* Claims about the two event queries (SpecHorizon).                       *)

\* The events a step of callback j fetched: the digest's relevantEvents, the
\* immediate check's upcomingTides.
Fetched(j) ==
  IF job'[j] = job[j] \/ job[j].pc # "loop" \/ job'[j].pc # "send" THEN << >>
  ELSE IF JobKind(j) = "digest" THEN job'[j].relevantEvents
  ELSE job'[j].tides

\* C21: the digest relevance query returns only events whose start time t
\* satisfies now <= t < now + 24h (upper bound excluded), and never more than
\* 10 events.
C21_DigestQueryHalfOpenDay ==
  [][ LET result == Fetched("digest")
      IN  /\ Len(result) <= DigestLimit
          /\ \A k \in 1..Len(result) :
               /\ Instant <= result[k].startAt
               /\ result[k].startAt < Instant + DigestHorizon ]_vars

\* C22: the immediate-alert query returns only tide events whose start time t
\* satisfies now <= t < now + 1h (upper bound excluded), and never more than
\* 5 events.
C22_TideQueryHalfOpenHour ==
  [][ \A j \in {"immediate", "startup"} :
        LET result == Fetched(j)
        IN  /\ Len(result) <= TideLimit
            /\ \A k \in 1..Len(result) :
                 /\ result[k].type = "tide"
                 /\ Instant <= result[k].startAt
                 /\ result[k].startAt < Instant + TideHorizon ]_vars

---------------------------------------------------------------------------
(* Claims about the event types of a digest (SpecTypes).                   *)

\* The union of the type sets of the categories a row has enabled with a
\* frequency other than 'never'.
TypesOf(row) ==
  UNION {CategoryTypes[c] :
           c \in {d \in Categories : Enabled(row, d) /\ ~IsNever(row, d)}}

\* C23: in digest mode the set of event types queried for a user is exactly
\* the union, over the categories with enabled = true and frequency other than
\* 'never', of tides -> {tide}, sports -> {match_liga, uefa, fifa},
\* astronomy -> {astronomy, moon}, agriculture -> {agriculture},
\* cultural -> {event_pt, cultural}, holidays -> {holiday}; when that set is
\* empty getRelevantEvents returns no events without querying the event store
\* (and sendToUser is not called).
C23_TypesQueriedAreEnabledUnion ==
  [][ \A j \in JobIds :
        ( /\ JobKind(j) = "digest"
          /\ job[j].pc = "loop"
          /\ job'[j] # job[j]
          /\ inSendWindow(job[j].contexts[job[j].i].preferences
                            .preferredNotificationTime) ) =>
          LET context == job[j].contexts[job[j].i]
              expected == TypesOf(context.preferences)
          IN  /\ Range(job'[j].eventTypes) = expected
              /\ \A k \in 1..Len(job'[j].relevantEvents) :
                   job'[j].relevantEvents[k].type \in expected
              /\ IF expected = {}
                 THEN /\ job'[j].queried = job[j].queried
                      /\ job'[j].relevantEvents = << >>
                      /\ job'[j].pc # "send"
                 ELSE job'[j].queried = job[j].queried \cup {context.userId}
    ]_vars

\* C23 witness: sports and holidays are enabled and daily, tides are enabled
\* with frequency 'never', astronomy, agriculture and cultural are disabled;
\* the 09:00 run queried match_liga, uefa, fifa and holiday and sent a digest of
\* the holiday and the match, without the tide.
C23_Witness ==
  /\ TypesOf(prefs[1]) = {"match_liga", "uefa", "fifa", "holiday"}
  /\ Enabled(prefs[1], "tides")
  /\ job["digest"].eventTypes = << "match_liga", "uefa", "fifa", "holiday" >>
  /\ job["digest"].queried = {1}
  /\ \E a \in log : /\ a.payload.title.count = 2
                    /\ Range(a.payload.body) = {"Feriado", "Jogo"}

---------------------------------------------------------------------------
(* Claims about time zones (SpecCategory).                                 *)

\* Table users as far as the claim needs it: registration stores the zone the
\* client sent, or Europe/Lisbon.  No scheduler code reads the table.
users ==
  << [id |-> 1, timezone |-> "Europe/Lisbon"],
     [id |-> 2, timezone |-> "Atlantic/Azores"] >>

\* Minutes a zone's wall clock is ahead of UTC (winter time).
UtcOffset ==
  [ UTC |-> 0, Europe_Lisbon |-> 0, Atlantic_Azores |-> -60 ]

ZoneKey(timezone) ==
  IF timezone = "Europe/Lisbon" THEN "Europe_Lisbon"
  ELSE IF timezone = "Atlantic/Azores" THEN "Atlantic_Azores"
  ELSE "UTC"

TimezoneOf(userId) ==
  users[CHOOSE k \in 1..Len(users) : users[k].id = userId].timezone

\* The minute of the day a user's own wall clock shows at an instant of the
\* server's clock, the server running on zone serverZone.
LocalMinute(instant, serverZone, userId) ==
  ( instant + UtcOffset[ZoneKey(TimezoneOf(userId))] - UtcOffset[serverZone]
    + MinutesPerDay ) % MinutesPerDay

\* C24: the schedulers evaluate each user's preferred notification time in
\* that user's own time zone (users.timezone): whatever zone the server's
\* clock runs on, every digest goes out while the user's own local time is
\* inside [preferredTime, preferredTime + 15), so two users with the same
\* preferred time and different zones are sent theirs at different ticks.
C24_DigestInUsersOwnZone ==
  \E serverZone \in DOMAIN UtcOffset :
    \A a \in log : a.payload.tag.kind = "daily-digest" =>
      LET preferred == TotalMinutes(OrDefault(
                         RowOf(a.userId).preferredNotificationTime,
                         DefaultPreferredTime)).v
          local == LocalMinute(a.at, serverZone, a.userId)
      IN  preferred <= local /\ local < preferred + SendWindow

---------------------------------------------------------------------------
(* Claims about the preference routes (SpecPrefs).                         *)

HasRow(userId) == PreferencesOf(prefs, userId) # {}

\* At most one row per user.
OneRowPerUser ==
  \A a, b \in 1..Len(prefs) : prefs[a].userId = prefs[b].userId => a = b

\* The request has been answered.
Answered(req) ==
  http[req] \in {"defaults", "stored", "updated", "inserted", "failed"}

\* C25 as stated: a user's row is created lazily on the user's first
\* preference read (GET) as well as on the first write (PUT): after either
\* request a row for that user exists, and no sequence of reads and writes
\* leaves more than one row per user.
C25_RowAfterReadOrWrite ==
  /\ OneRowPerUser
  /\ \A req \in env.requests : Answered(req) => HasRow(req.userId)

\* C25 amended: a user's row is created on the user's first write (PUT) only:
\* after a PUT a row for that user exists; a GET writes nothing and answers the
\* defaults exactly when the user has no row; no sequence of reads and writes
\* leaves more than one row per user.
C25_RowCreatedByWriteOnly ==
  /\ [](OneRowPerUser
        /\ \A req \in env.requests :
             (req.op = "putPreferences" /\ Answered(req)) => HasRow(req.userId))
  /\ [][ \A req \in env.requests :
           (req.op = "getPreferences" /\ http'[req] # http[req]) =>
             /\ prefs' = prefs
             /\ (http'[req] = "defaults") <=> ~HasRow(req.userId)
             /\ (http'[req] = "stored") <=> HasRow(req.userId) ]_vars

\* C25 witness: user 2's read was answered with the defaults; both of user 2's
\* writes found no row, one insert went through and the other was rejected;
\* the table holds one row for user 2.
C25_Witness ==
  /\ \E req \in env.requests :
       req.op = "getPreferences" /\ req.userId = 2 /\ http[req] = "defaults"
  /\ \E req \in env.requests : req.userId = 2 /\ http[req] = "inserted"
  /\ \E req \in env.requests : req.userId = 2 /\ http[req] = "failed"
  /\ Cardinality(PreferencesOf(prefs, 2)) = 1
  /\ Len(prefs) = 2

---------------------------------------------------------------------------
(* Claims about users without a stored preference row (SpecNoRow).         *)

\* What GET /api/notifications/preferences answered.
Response(req) ==
  IF http[req] = "defaults" THEN DefaultPreferences ELSE RowOf(req.userId)

\* C29: a user who has registered push subscriptions but no stored
\* NotificationPreferences row is never sent a digest or an immediate alert by
\* the schedulers (no context is built and sendToUser is not called for a
\* user without a row, so every delivery attempt went to a user with a row),
\* although GET /api/notifications/preferences reports default preferences
\* with tides enabled at 'immediate' for that user.
C29_NoRowNoNotification ==
  /\ \A a \in log : HasRow(a.userId)
  /\ \A j \in JobIds :
       /\ \A u \in job[j].called \cup job[j].handled : HasRow(u)
       /\ \A k \in 1..Len(job[j].contexts) : HasRow(job[j].contexts[k].userId)
  /\ \A req \in env.requests :
       (req.op = "getPreferences" /\ Answered(req) /\ ~HasRow(req.userId)) =>
         /\ http[req] = "defaults"
         /\ Response(req).tidesEnabled
         /\ Response(req).tidesFrequency = "immediate"

\* C29 witness: user 2 has a registration and no row, and was told the defaults
\* (tides enabled, 'immediate'); the immediate check of 09:00, with a tide 50
\* minutes ahead, ran through and alerted user 1 only.
C29_Witness ==
  /\ ~HasRow(2)
  /\ \E s \in subs : s.userId = 2
  /\ \E req \in env.requests :
       /\ req.op = "getPreferences" /\ req.userId = 2
       /\ http[req] = "defaults"
       /\ Response(req).tidesFrequency = "immediate"
  /\ CleanRun("immediate")
  /\ \E e \in events : e.type = "tide" /\ e.startAt = Instant + 50
  /\ \E a \in log : a.userId = 1 /\ a.payload.tag.kind = "tide"
  /\ \A a \in log : a.userId = 1

---------------------------------------------------------------------------
(* Claims about the digest's gate (SpecGate).                              *)

\* The events the digest query of the current minute matches for a row.
DigestMatches(row) ==
  {e \in events : /\ e.type \in Range(eventTypes(row))
                  /\ e.startAt >= Instant
                  /\ e.startAt <= Instant + DigestHorizon}

\* The four conditions of the claim for the user of a row, in a run of the
\* digest callback j started in the current minute: a select that threw for
\* the user found no subscription, or returned no event, for that user.
PassesGate(j, row) ==
  /\ ~QuietNow(row.userId)
  /\ \E s \in subs : s.userId = row.userId
  /\ job[j].subFail # row.userId
  /\ inSendWindow(row.preferredNotificationTime)
  /\ DigestMatches(row) # {}
  /\ job[j].queryFail # row.userId

\* The run of callback j read the preference table and is over.
TickOver(j) ==
  /\ RunOver(j)
  /\ job[j].ended = "completed" \/ job[j].subFail # 0 \/ job[j].queryFail # 0

\* C26: for well-formed preferences, in one digest tick sendToUser is called
\* for a user with tag 'daily-digest' iff all four hold: the user is not in
\* quiet hours, has at least one push subscription, the current minute is
\* inside [preferredTime, preferredTime + 15), and the digest relevance query
\* returns at least one event; when any one fails the tick has no side effect
\* for that user.
C26_DigestIffFourConditions ==
  TickOver("digest") =>
    \A k \in 1..Len(prefs) :
      WellFormedTimes(prefs[k]) =>
        LET u == prefs[k].userId
            attempts == {a \in log : /\ a.job = "digest"
                                     /\ a.run = job["digest"].run
                                     /\ a.userId = u}
        IN  /\ u \in job["digest"].called <=> PassesGate("digest", prefs[k])
            /\ u \notin job["digest"].called => attempts = {}
            /\ \A a \in attempts : a.payload.tag.kind = "daily-digest"

---------------------------------------------------------------------------
(* Claims about repeated immediate alerts (SpecStartup).                   *)

\* The runs of sendImmediateNotifications that delivered the alert of a tide
\* to the user.
AlertRuns(userId, tideId) ==
  { << a.job, a.run >> :
      a \in {b \in log : /\ b.userId = userId
                         /\ b.payload.tag = [kind |-> "tide", id |-> tideId]
                         /\ b.statusCode = StatusCreated} }

\* C27: across successive ticks of sendImmediateNotifications (every 15
\* minutes, plus the run one minute after startup), a user receives at most
\* one immediate alert for any given tide event.
C27_OneAlertPerTide ==
  \A k \in 1..Len(prefs) : \A e \in events :
    Cardinality(AlertRuns(prefs[k].userId, e.id)) <= 1

---------------------------------------------------------------------------
(* Claims about the owner of a registration (SpecStore).                   *)

\* The requests whose handler takes a step.
Handled == {req \in env.requests : http'[req] # http[req]}

\* C28: a push subscribe or unsubscribe request made by user U never modifies
\* or deletes a registration owned by a different user V: every step of a
\* handler of U leaves every registration owned by another user in the store
\* with unchanged keys.
C28_OtherUsersRowsUntouched ==
  [][ \A req \in Handled :
        req.op \in {"subscribe", "unsubscribe"} =>
          \A r \in subs : r.userId # req.userId => r \in subs' ]_vars

---------------------------------------------------------------------------
(* Claims about the two quiet-hours predicates (SpecAgree).                *)

\* C30: the two quiet-hours predicates agree: for every quietHoursStart,
\* quietHoursEnd and current time in 00:00-23:59,
\* PushNotificationService.isQuietHours (string comparison of HH:MM) returns
\* the same result as the scheduler's isQuietHours (minutes since midnight).
C30_QuietPredicatesAgree ==
  probe.fn = "both" => probe.result.scheduler = probe.result.service

=============================================================================
